---- MODULE Spec2Model ----
(***************************************************************************)
(* The streaming core of contract-genai-frontend/src/utils/api.ts:         *)
(* streamContract's read loop (frame decoding, JSON fragment assembly,     *)
(* content extraction, accumulation, emission) and the formatters it       *)
(* calls.  A JavaScript string is a sequence of one-character strings.     *)
(***************************************************************************)
EXTENDS Integers, Sequences, FiniteSets, TLC

VARIABLES
    pc,                    \* position of streamContract: "top", "reading", "lines", "done", "cancelled", "failed"
    aborted,               \* signal.aborted
    buffer,                \* api.ts:136  unconsumed trailing partial line
    accumulatedContent,    \* api.ts:137  the Accumulation
    incompleteJsonBuffer,  \* api.ts:138  pending partial JSON object
    lines,                 \* the lines of the current chunk not yet handled by the for loop (api.ts:178)
    calls,                 \* history of callback invocations and of the abort signal, in order
    frags,                 \* history of the texts handed to processTextContent, in order, with their effect
    handled,               \* history of the lines the for loop has handled, in order
    last,                  \* what the most recent step of the loop did (kind of event, state before it)
    reads,                 \* history of the chunks the reads have returned, in order
    whole,                 \* split delivery: the object being sent; formatters: the text drawn; typing: the state of streamCharacters
    rest                   \* split delivery: the part of it not yet sent; formatters: the text returned; typing: the waiting processChunk invocations

vars == <<pc, aborted, buffer, accumulatedContent, incompleteJsonBuffer, lines,
          calls, frags, handled, last, reads, whole, rest>>

-----------------------------------------------------------------------------
(* Characters and elementary string operations                             *)

Letters ==
    {"a","b","c","d","e","f","g","h","i","j","k","l","m","n","o","p","q","r","s","t","u","v","w","x","y","z",
     "A","B","C","D","E","F","G","H","I","J","K","L","M","N","O","P","Q","R","S","T","U","V","W","X","Y","Z"}

Digits == {"0","1","2","3","4","5","6","7","8","9"}

\* \s of a JavaScript regular expression and the characters trim() removes
IsSpace(c) == c \in {" ", "\n", "\t", "\r"}

\* the line terminators: what '.' does not match and where ^ and $ match under /m
IsLineEnd(c) == c \in {"\n", "\r"}

\* [a-zA-Z\s]
IsAlphaSpace(c) == c \in Letters \/ IsSpace(c)

\* \d
IsDigit(c) == c \in Digits

Html == <<"h","t","m","l">>

\* the element of a one-element set
Only(S) == CHOOSE x \in S : TRUE

\* a loop: the state after n executions of the loop body Op, started in state x
RECURSIVE Iterate(_, _, _)
Iterate(Op(_), x, n) ==
    IF n <= 0 THEN x
    ELSE IF n = 1 THEN Op(x)
    ELSE Only({Iterate(Op, y, n - (n \div 2)) : y \in {Iterate(Op, x, n \div 2)}})

\* the least j in lo..hi with P(j), 0 if there is none
First(P(_), lo, hi) ==
    IF \E j \in lo..hi : P(j)
    THEN CHOOSE j \in lo..hi : P(j) /\ \A k \in lo..(j - 1) : ~P(k)
    ELSE 0

\* length of the maximal run of characters satisfying P that starts at i
RunLen(P(_), s, i) ==
    IF i > Len(s) THEN 0
    ELSE CHOOSE k \in 0..(Len(s) - i + 1) :
             /\ \A j \in i..(i + k - 1) : P(s[j])
             /\ (i + k > Len(s) \/ ~P(s[i + k]))

\* s.startsWith(p) at 1-based position i
MatchAt(s, i, p) ==
    /\ i >= 1
    /\ i + Len(p) - 1 <= Len(s)
    /\ \A k \in 1..Len(p) : s[i + k - 1] = p[k]

StartsWith(s, p) == MatchAt(s, 1, p)

EndsWith(s, p) == MatchAt(s, Len(s) - Len(p) + 1, p)

\* s.includes(p)
Includes(s, p) == \E i \in 1..(Len(s) + 1) : MatchAt(s, i, p)

IsPrefix(p, s) == StartsWith(s, p)

\* s.slice(i) with a 0-based index i
SliceFrom(s, i) == SubSeq(s, i + 1, Len(s))

\* number of whitespace characters from i on
LeadSpace(s, i) == RunLen(IsSpace, s, i)

\* number of whitespace characters from i backwards
TrailSpace(s, i) ==
    CHOOSE k \in 0..i :
        /\ \A j \in (i - k + 1)..i : IsSpace(s[j])
        /\ (k = i \/ ~IsSpace(s[i - k]))

\* s.trim()
Trim(s) ==
    IF LeadSpace(s, 1) = Len(s) THEN <<>>
    ELSE SubSeq(s, LeadSpace(s, 1) + 1, Len(s) - TrailSpace(s, Len(s)))

\* length of the maximal run of whitespace starting at i
SpaceRun(s, i) == LeadSpace(s, i)

\* number of "\n" among s[i..j]
CountNewlines(s, i, j) == Cardinality({k \in i..j : s[k] = "\n"})

\* length of the maximal run of "\n" starting at i
NewlineRun(s, i) == RunLen(LAMBDA c : c = "\n", s, i)

\* s.split('\n')
RECURSIVE SplitLines(_)
SplitLines(s) ==
    LET Cut(i) == <<SubSeq(s, 1, i - 1)>> \o SplitLines(SubSeq(s, i + 1, Len(s)))
    IN  IF \A i \in 1..Len(s) : s[i] # "\n" THEN <<s>>
        ELSE Cut(First(LAMBDA k : s[k] = "\n", 1, Len(s)))

-----------------------------------------------------------------------------
(* The regular-expression replacements shared by the formatters.  A global *)
(* replace scans left to right; at each position it either replaces the    *)
(* match that starts there and continues behind it, or copies one          *)
(* character.  MatchLen(i) is the length of the match that starts at i     *)
(* (0 if none, no pattern here matches the empty string) and Repl(i) is    *)
(* what replaces it.                                                       *)

ReplaceAll(MatchLen(_), Repl(_), s) ==
    LET Body(st) ==
            IF st.i > Len(s) THEN st
            ELSE IF MatchLen(st.i) > 0
                 THEN [i |-> st.i + MatchLen(st.i), out |-> st.out \o Repl(st.i)]
                 ELSE [i |-> st.i + 1, out |-> Append(st.out, s[st.i])]
    IN  Iterate(Body, [i |-> 1, out |-> <<>>], Len(s)).out

\* /html\s*html/ with at least minNl "\n" in the whitespace: length of the match at i, 0 if none.
\* minNl = 0: /html\s*html/   1: /html\s*\n\s*html/   2: /html\s*\n\s*\n\s*html/
HtmlDupMatch(s, i, minNl) ==
    LET Second(k) ==
            IF MatchAt(s, i + 4 + k, Html) /\ CountNewlines(s, i + 4, i + 3 + k) >= minNl
            THEN 8 + k ELSE 0
    IN  IF ~MatchAt(s, i, Html) THEN 0 ELSE Second(SpaceRun(s, i + 4))

\* .replace(/html\s*html/g, 'html') and its two variants
ReplaceHtmlDup(s, minNl) ==
    ReplaceAll(LAMBDA i : HtmlDupMatch(s, i, minNl), LAMBDA i : Html, s)

\* .replace(/([a-zA-Z\s]+)html$/g, '$1'): without /m, $ is the end of the string, so the
\* only match ends the string: "html" last, preceded by at least one [a-zA-Z\s].
StripTrailingHtml(s) ==
    IF Len(s) >= 5 /\ EndsWith(s, Html) /\ IsAlphaSpace(s[Len(s) - 4])
    THEN SubSeq(s, 1, Len(s) - 4)
    ELSE s

\* .replace(/\n{3,}/g, '\n\n')
CollapseNewlines(s) ==
    ReplaceAll(LAMBDA i : IF NewlineRun(s, i) >= 3 THEN NewlineRun(s, i) ELSE 0,
               LAMBDA i : <<"\n", "\n">>, s)

\* .replace(/\s{2,}/g, ' ')
CollapseSpaces(s) ==
    ReplaceAll(LAMBDA i : IF SpaceRun(s, i) >= 2 THEN SpaceRun(s, i) ELSE 0,
               LAMBDA i : <<" ">>, s)

-----------------------------------------------------------------------------
(* decodeHtmlEntities (api.ts:43): the browser's reading of the text as    *)
(* the content of a textarea.  The model decodes the four named character  *)
(* references below, turns "\r\n" and "\r" into "\n" as the HTML parser    *)
(* does, and leaves every other character as it is.                        *)

Entities ==
    << <<(<<"&","a","m","p",";">>), "&">>,
       <<(<<"&","l","t",";">>), "<">>,
       <<(<<"&","g","t",";">>), ">">>,
       <<(<<"&","q","u","o","t",";">>), "\"">>,
       <<(<<"\r","\n">>), "\n">>,
       <<(<<"\r">>), "\n">> >>

\* index of the first entry of Entities that starts at i, 0 if none
EntityAt(s, i) == First(LAMBDA e : MatchAt(s, i, Entities[e][1]), 1, Len(Entities))

decodeHtmlEntities(text) ==
    ReplaceAll(LAMBDA i : IF EntityAt(text, i) > 0 THEN Len(Entities[EntityAt(text, i)][1]) ELSE 0,
               LAMBDA i : <<Entities[EntityAt(text, i)][2]>>, text)

-----------------------------------------------------------------------------
(* formatTextContent (api.ts:60)                                           *)

formatTextContent(text) ==
    Trim(                                   \* .trim()
     CollapseSpaces(                        \* \s{2,}  ->  ' '
      CollapseNewlines(                     \* \n{3,}  ->  '\n\n'
       StripTrailingHtml(                   \* ([a-zA-Z\s]+)html$  ->  $1
        ReplaceHtmlDup(                     \* html\s*html  ->  html
         ReplaceHtmlDup(                    \* html\s*\n\s*\n\s*html  ->  html
          ReplaceHtmlDup(                   \* html\s*\n\s*html  ->  html
           ReplaceHtmlDup(                  \* html\s*html  ->  html
            decodeHtmlEntities(text), 0), 1), 2), 0)))))

-----------------------------------------------------------------------------
(* convertToPlainText (api.ts:655)                                         *)

\* the bullet glyph written by api.ts:676, one character of the output
Bullet == "BULLET"

\* the backquote character (a string of the module cannot hold it)
Backtick == "BACKTICK"

\* lazy (.*?) up to the delimiter d: position of the first d at or after j with no line
\* terminator before it, 0 if there is none
FindClose(s, j, d) ==
    LET Stop(p) == IF p > 0 /\ MatchAt(s, p, d) THEN p ELSE 0
    IN  Stop(First(LAMBDA q : MatchAt(s, q, d) \/ IsLineEnd(s[q]), j, Len(s)))

\* .replace(/D(.*?)D/g, '$1') for a delimiter D: "**", "*" or the backquote
Unwrap(s, d) ==
    ReplaceAll(LAMBDA i : IF MatchAt(s, i, d) /\ FindClose(s, i + Len(d), d) > 0
                          THEN FindClose(s, i + Len(d), d) + Len(d) - i ELSE 0,
               LAMBDA i : SubSeq(s, i + Len(d), FindClose(s, i + Len(d), d) - 1), s)

\* ^ under /m
IsLineStart(s, i) == i = 1 \/ IsLineEnd(s[i - 1])

\* length of the run of digits starting at i
DigitRun(s, i) == RunLen(IsDigit, s, i)

\* length of the run of characters that are no line terminators, starting at i  (.*$)
LineRun(s, i) == RunLen(LAMBDA c : ~IsLineEnd(c), s, i)

\* length of the line marker matched at i, 0 if none:
\* "h1": /^# /   "h2": /^## /   "h3": /^### /   "dash": /^- /   "num": /^\d+\. /
MarkerLen(s, i, kind) ==
    IF ~IsLineStart(s, i) THEN 0
    ELSE IF kind = "h1" THEN (IF MatchAt(s, i, <<"#", " ">>) THEN 2 ELSE 0)
    ELSE IF kind = "h2" THEN (IF MatchAt(s, i, <<"#", "#", " ">>) THEN 3 ELSE 0)
    ELSE IF kind = "h3" THEN (IF MatchAt(s, i, <<"#", "#", "#", " ">>) THEN 4 ELSE 0)
    ELSE IF kind = "dash" THEN (IF MatchAt(s, i, <<"-", " ">>) THEN 2 ELSE 0)
    ELSE IF DigitRun(s, i) > 0 /\ MatchAt(s, i + DigitRun(s, i), <<".", " ">>)
         THEN DigitRun(s, i) + 2 ELSE 0

\* .replace(/^MARKER(.*$)/gm, PREFIX + '$1')
StripMarker(s, kind, prefix) ==
    ReplaceAll(LAMBDA i : IF MarkerLen(s, i, kind) > 0
                          THEN MarkerLen(s, i, kind) + LineRun(s, i + MarkerLen(s, i, kind))
                          ELSE 0,
               LAMBDA i : prefix \o SubSeq(s, i + MarkerLen(s, i, kind),
                                           i + MarkerLen(s, i, kind)
                                             + LineRun(s, i + MarkerLen(s, i, kind)) - 1),
               s)

convertToPlainText(rawText) ==
    StripMarker(                            \* ^\d+\. (.*$)  ->  $1
     StripMarker(                           \* ^- (.*$)  ->  bullet + ' ' + $1
      StripMarker(                          \* ^### (.*$)  ->  $1
       StripMarker(                         \* ^## (.*$)  ->  $1
        StripMarker(                        \* ^# (.*$)  ->  $1
         Unwrap(                            \* backquoted code
          Unwrap(                           \* \*(.*?)\*  ->  $1
           Unwrap(                          \* \*\*(.*?)\*\*  ->  $1
            Trim(
             StripTrailingHtml(
              ReplaceHtmlDup(
               ReplaceHtmlDup(
                decodeHtmlEntities(rawText), 0), 1))),
            <<"*", "*">>),
           <<"*">>),
          <<Backtick>>),
         "h1", <<>>),
        "h2", <<>>),
       "h3", <<>>),
      "dash", <<Bullet, " ">>),
     "num", <<>>)

-----------------------------------------------------------------------------
(* JSON.parse (api.ts:242, api.ts:421).  A value is a record: t is its      *)
(* type, s the characters of a string, number or literal, kids the members  *)
(* <<key, value>> of an object or the elements of an array.  A parse result *)
(* is [ok, v, i]: whether a value was read, the value, and the position     *)
(* behind it.  String escapes \b, \f and \uXXXX are outside the modelled     *)
(* alphabet and are rejected.                                               *)

Val(t, s, kids) == [t |-> t, s |-> s, kids |-> kids]

Undefined == Val("undef", <<>>, <<>>)

Fail == [ok |-> FALSE, v |-> Undefined, i |-> 0]

Ok(v, i) == [ok |-> TRUE, v |-> v, i |-> i]

\* JSON whitespace
SkipWs(s, i) == i + RunLen(IsSpace, s, i)

\* the character an escape sequence \c stands for, "" if the model rejects it
Unescape(c) ==
    IF c \in {"\"", "\\", "/"} THEN c
    ELSE IF c = "n" THEN "\n"
    ELSE IF c = "t" THEN "\t"
    ELSE IF c = "r" THEN "\r"
    ELSE ""

\* a string literal whose body starts at j (behind the opening quote): the position of
\* its closing quote, 0 if the literal is not well formed
StringEnd(s, j) ==
    LET Body(st) ==
            CASE st.e # -1 -> st
              [] st.i > Len(s) -> [st EXCEPT !.e = 0]
              [] s[st.i] = "\"" -> [st EXCEPT !.e = st.i]
              [] s[st.i] = "\\" ->
                     IF st.i + 1 > Len(s) \/ Unescape(s[st.i + 1]) = ""
                     THEN [st EXCEPT !.e = 0]
                     ELSE [st EXCEPT !.i = st.i + 2]
              [] s[st.i] \in {"\n", "\t", "\r"} -> [st EXCEPT !.e = 0]
              [] OTHER -> [st EXCEPT !.i = st.i + 1]
    IN  Iterate(Body, [i |-> j, e |-> -1], Len(s) - j + 2).e

\* the characters the body s[j..e-1] of a string literal stands for
StringValue(s, j, e) ==
    LET Body(st) ==
            IF st.i >= e THEN st
            ELSE IF s[st.i] = "\\"
                 THEN [i |-> st.i + 2, out |-> Append(st.out, Unescape(s[st.i + 1]))]
                 ELSE [i |-> st.i + 1, out |-> Append(st.out, s[st.i])]
    IN  Iterate(Body, [i |-> j, out |-> <<>>], e - j).out

\* the string literal whose body starts at j
ParseStringBody(s, j) ==
    LET Close(e) == IF e = 0 THEN Fail ELSE Ok(Val("str", StringValue(s, j, e), <<>>), e + 1)
    IN  Close(StringEnd(s, j))

\* a number at i: -? (0 | [1-9][0-9]*) (\.[0-9]+)? ([eE][+-]?[0-9]+)?   position behind it, 0 if none
NumberEnd(s, i) ==
    LET ExpDigits(g, n) == IF n = 0 THEN 0 ELSE g + n
        Exponent(c, g) == IF g = 0 THEN c ELSE ExpDigits(g, DigitRun(s, g))
        AfterFrac(c) ==
            IF c = 0 THEN 0
            ELSE Exponent(c, IF c <= Len(s) /\ s[c] \in {"e", "E"}
                             THEN (IF c + 1 <= Len(s) /\ s[c + 1] \in {"+", "-"}
                                   THEN c + 2 ELSE c + 1)
                             ELSE 0)
        Frac(b, f) == IF f = 0 THEN 0 ELSE AfterFrac(b + 1 + f)
        AfterInt(b) ==
            IF b = 0 THEN 0
            ELSE IF b <= Len(s) /\ s[b] = "." THEN Frac(b, DigitRun(s, b + 1))
            ELSE AfterFrac(b)
        IntPart(a, d) == AfterInt(IF d = 0 THEN 0 ELSE IF s[a] = "0" THEN a + 1 ELSE a + d)
        Sign(a) == IntPart(a, DigitRun(s, a))
    IN  Sign(IF i <= Len(s) /\ s[i] = "-" THEN i + 1 ELSE i)

Literals == << <<"t","r","u","e">>, <<"f","a","l","s","e">>, <<"n","u","l","l">> >>

RECURSIVE ParseValue(_, _)
RECURSIVE ParseMembers(_, _, _)
RECURSIVE ParseElements(_, _, _)

\* the members of an object from j on (a key is expected); acc is what was read
ParseMembers(s, j, acc) ==
    LET More(all, e) ==
            IF e > Len(s) THEN Fail
            ELSE IF s[e] = "}" THEN Ok(Val("obj", <<>>, all), e + 1)
            ELSE IF s[e] = "," THEN ParseMembers(s, e + 1, all)
            ELSE Fail
        Value(key, val) ==
            IF ~val.ok THEN Fail
            ELSE More(Append(acc, <<key.v.s, val.v>>), SkipWs(s, val.i))
        Colon(key, c) ==
            IF c > Len(s) \/ s[c] # ":" THEN Fail ELSE Value(key, ParseValue(s, c + 1))
        Key(key) == IF ~key.ok THEN Fail ELSE Colon(key, SkipWs(s, key.i))
        Start(k) ==
            IF k > Len(s) \/ s[k] # "\"" THEN Fail ELSE Key(ParseStringBody(s, k + 1))
    IN  Start(SkipWs(s, j))

\* the elements of an array from j on (a value is expected); acc is what was read
ParseElements(s, j, acc) ==
    LET More(all, e) ==
            IF e > Len(s) THEN Fail
            ELSE IF s[e] = "]" THEN Ok(Val("arr", <<>>, all), e + 1)
            ELSE IF s[e] = "," THEN ParseElements(s, e + 1, all)
            ELSE Fail
        Value(val) ==
            IF ~val.ok THEN Fail ELSE More(Append(acc, val.v), SkipWs(s, val.i))
    IN  Value(ParseValue(s, j))

ParseValue(s, i) ==
    LET Literal(j, l) ==
            IF l = 0 THEN Fail ELSE Ok(Val("lit", Literals[l], <<>>), j + Len(Literals[l]))
        Number(j, e) ==
            IF e > 0 THEN Ok(Val("num", SubSeq(s, j, e - 1), <<>>), e)
            ELSE Literal(j, IF \E l \in 1..Len(Literals) : MatchAt(s, j, Literals[l])
                            THEN CHOOSE l \in 1..Len(Literals) : MatchAt(s, j, Literals[l])
                            ELSE 0)
        Object(j, k) ==
            IF k <= Len(s) /\ s[k] = "}" THEN Ok(Val("obj", <<>>, <<>>), k + 1)
            ELSE ParseMembers(s, j + 1, <<>>)
        Array(j, k) ==
            IF k <= Len(s) /\ s[k] = "]" THEN Ok(Val("arr", <<>>, <<>>), k + 1)
            ELSE ParseElements(s, j + 1, <<>>)
        At(j) ==
            IF j > Len(s) THEN Fail
            ELSE IF s[j] = "{" THEN Object(j, SkipWs(s, j + 1))
            ELSE IF s[j] = "[" THEN Array(j, SkipWs(s, j + 1))
            ELSE IF s[j] = "\"" THEN ParseStringBody(s, j + 1)
            ELSE Number(j, NumberEnd(s, j))
    IN  At(SkipWs(s, i))

\* JSON.parse(str): ok is FALSE where JSON.parse throws
JsonParse(str) ==
    LET End(r) == IF r.ok /\ SkipWs(str, r.i) > Len(str) THEN r ELSE Fail
    IN  End(ParseValue(str, 1))

-----------------------------------------------------------------------------
(* cleanupAccumulatedContent (api.ts:554)                                  *)

\* .replace(/html\s*$/g, ''): "html" followed only by whitespace up to the end
StripHtmlAtEndFrom(s, i) ==
    LET Cut(m) == IF m > 0 THEN SubSeq(s, 1, m - 1) ELSE s
    IN  Cut(First(LAMBDA k : MatchAt(s, k, Html) /\ k + 4 + SpaceRun(s, k + 4) > Len(s),
                  i, Len(s)))

StripHtmlAtEnd(s) == StripHtmlAtEndFrom(s, 1)

\* .replace(/^\s*html\s*/g, ''): without /m, ^ is the start of the string
StripHtmlAtStart(s) ==
    LET After(k) ==
            IF MatchAt(s, k + 1, Html) THEN SubSeq(s, k + 5 + SpaceRun(s, k + 5), Len(s))
            ELSE s
    IN  After(SpaceRun(s, 1))

\* position of the first ">" at or after j, 0 if none   ([^>]*>)
FindGt(s, j) == First(LAMBDA k : s[k] = ">", j, Len(s))

\* <\/h[1-6]> at j
IsHeaderClose(s, j) ==
    /\ MatchAt(s, j, <<"<", "/", "h">>)
    /\ j + 4 <= Len(s)
    /\ s[j + 3] \in {"1","2","3","4","5","6"}
    /\ s[j + 4] = ">"

\* lazy (.*?) up to <\/h[1-6]>: position of the first one at or after j on the same line, 0 if none
FindHeaderClose(s, j) ==
    LET Stop(p) == IF p > 0 /\ IsHeaderClose(s, p) THEN p ELSE 0
    IN  Stop(First(LAMBDA q : IsHeaderClose(s, q) \/ IsLineEnd(s[q]), j, Len(s)))

\* <h[1-6][^>]*> at i: position of its ">", 0 if none
HeaderOpenEnd(s, i) ==
    IF MatchAt(s, i, <<"<", "h">>) /\ i + 2 <= Len(s) /\ s[i + 2] \in {"1","2","3","4","5","6"}
    THEN FindGt(s, i + 3)
    ELSE 0

\* /<h[1-6][^>]*>.*?<\/h[1-6]>/ at i: length of the match, 0 if none
HeaderMatch(s, i) ==
    LET Close(q) == IF q > 0 THEN q + 5 - i ELSE 0
        Open(g) == IF g > 0 THEN Close(FindHeaderClose(s, g + 1)) ELSE 0
    IN  Open(HeaderOpenEnd(s, i))

\* content.split(/(<h[1-6][^>]*>.*?<\/h[1-6]>)/): text, header, text, header, ..., text
SplitHeadersFrom(s, from, i) ==
    LET Cut(st, m) ==
            IF m > 0
            THEN [from |-> st.i + m, i |-> st.i + m,
                  out  |-> st.out \o <<SubSeq(s, st.from, st.i - 1), SubSeq(s, st.i, st.i + m - 1)>>]
            ELSE [st EXCEPT !.i = st.i + 1]
        Body(st) == IF st.i > Len(s) THEN st ELSE Cut(st, HeaderMatch(s, st.i))
        Last(st) == Append(st.out, SubSeq(s, st.from, Len(s)))
    IN  Last(Iterate(Body, [from |-> from, i |-> i, out |-> <<>>], Len(s)))

SplitHeaders(s) == SplitHeadersFrom(s, 1, 1)

\* .replace(/<[^>]*>/g, '')
StripTagsFrom(s, i) ==
    ReplaceAll(LAMBDA k : IF s[k] = "<" /\ FindGt(s, k + 1) > 0 THEN FindGt(s, k + 1) + 1 - k ELSE 0,
               LAMBDA k : <<>>, s)

StripTags(s) == StripTagsFrom(s, 1)

\* the loop of api.ts:569: sections[i] is taken as the header and sections[i+1] as its
\* content; the Map keeps the first section of each header text, in insertion order.
\* The result is the sequence of <<headerText, header + content>>.
RECURSIVE UniqueSections(_, _, _)
UniqueSections(sections, i, map) ==
    LET Section(header, content, headerText) ==
            IF Trim(header) # <<>> /\ ~(\E k \in 1..Len(map) : map[k][1] = headerText)
            THEN UniqueSections(sections, i + 2, Append(map, <<headerText, header \o content>>))
            ELSE UniqueSections(sections, i + 2, map)
    IN  IF i > Len(sections) THEN map
        ELSE Section(sections[i],
                     IF i + 1 <= Len(sections) THEN sections[i + 1] ELSE <<>>,
                     Trim(StripTags(sections[i])))

\* String(n) for 0 <= n <= 99
DigitChar(d) == <<"0","1","2","3","4","5","6","7","8","9">>[d + 1]

NumStr(n) == IF n < 10 THEN <<DigitChar(n)>> ELSE <<DigitChar(n \div 10), DigitChar(n % 10)>>

\* sectionContent.replace(/<h[1-6][^>]*>(\d+\.)(.*?)<\/h[1-6]>/, `<h2>${n}.$2</h2>`): first match only
RenumberFrom(s, i, n) ==
    LET Digits1(g) == IF g > 0 THEN DigitRun(s, g + 1) ELSE 0
        Close(g, d) ==
            IF d > 0 /\ MatchAt(s, g + 1 + d, <<".">>) THEN FindHeaderClose(s, g + 2 + d) ELSE 0
        Rewrite(k, g, d, q) ==
            SubSeq(s, 1, k - 1) \o <<"<","h","2",">">> \o NumStr(n) \o <<".">>
                \o SubSeq(s, g + 2 + d, q - 1) \o <<"<","/","h","2",">">>
                \o SubSeq(s, q + 5, Len(s))
        Number(k, g, d) == Rewrite(k, g, d, Close(g, d))
        Open(k, g) == Number(k, g, Digits1(g))
        Matches(k) == Close(HeaderOpenEnd(s, k), Digits1(HeaderOpenEnd(s, k))) > 0
        At(k) == IF k = 0 THEN s ELSE Open(k, HeaderOpenEnd(s, k))
    IN  At(First(Matches, i, Len(s)))

\* headerText.match(/^\d+\./)
IsNumbered(headerText) ==
    /\ DigitRun(headerText, 1) > 0
    /\ MatchAt(headerText, DigitRun(headerText, 1) + 1, <<".">>)

\* the loop of api.ts:588
RECURSIVE Reconstruct(_, _, _)
Reconstruct(map, k, sectionNumber) ==
    IF k > Len(map) THEN <<>>
    ELSE IF IsNumbered(map[k][1])
         THEN RenumberFrom(map[k][2], 1, sectionNumber) \o Reconstruct(map, k + 1, sectionNumber + 1)
         ELSE map[k][2] \o Reconstruct(map, k + 1, sectionNumber)

cleanupAccumulatedContent(content) ==
    Trim(
     StripTrailingHtml(
      ReplaceHtmlDup(
       ReplaceHtmlDup(
        Reconstruct(
         UniqueSections(
          SplitHeaders(
           Trim(
            StripHtmlAtStart(               \* ^\s*html\s*  ->  ''
             StripHtmlAtEnd(                \* html\s*$  ->  ''
              StripTrailingHtml(
               ReplaceHtmlDup(ReplaceHtmlDup(ReplaceHtmlDup(content, 0), 1), 2)))))),
          1, <<>>),
         1, 1),
        0), 1)))

-----------------------------------------------------------------------------
(* Content extraction: reading properties of the parsed value as           *)
(* JavaScript does (api.ts:245-280)                                        *)

IsNull(v) == v.t = "lit" /\ v.s = <<"n","u","l","l">>

\* v.key: the last member of that name of an object, undefined for any other value
Get(v, key) ==
    IF v.t = "obj" /\ \E k \in 1..Len(v.kids) : v.kids[k][1] = key
    THEN v.kids[CHOOSE k \in 1..Len(v.kids) :
                    /\ v.kids[k][1] = key
                    /\ \A j \in (k + 1)..Len(v.kids) : v.kids[j][1] # key][2]
    ELSE Undefined

\* the truth value of v in a condition
Truthy(v) ==
    IF v.t = "undef" THEN FALSE
    ELSE IF v.t = "lit" THEN v.s = <<"t","r","u","e">>
    ELSE IF v.t = "str" THEN v.s # <<>>
    ELSE IF v.t = "num"
         THEN \E k \in 1..Len(v.s) : /\ v.s[k] \in (Digits \ {"0"})
                                      /\ \A j \in 1..k : v.s[j] \notin {"e", "E"}
    ELSE TRUE

\* String(v): what string concatenation and innerHTML make of a value
RECURSIVE ToStr(_)
RECURSIVE JoinFrom(_, _)
JoinFrom(elems, k) ==
    IF k > Len(elems) THEN <<>>
    ELSE (IF k > 1 THEN <<",">> ELSE <<>>)
         \o (IF IsNull(elems[k]) THEN <<>> ELSE ToStr(elems[k]))
         \o JoinFrom(elems, k + 1)

ToStr(v) ==
    IF v.t = "obj" THEN <<"[","o","b","j","e","c","t"," ","O","b","j","e","c","t","]">>
    ELSE IF v.t = "arr" THEN JoinFrom(v.kids, 1)
    ELSE v.s

\* the values a for...of over parts visits; ok is FALSE where parts is not iterable
PartsOf(parts) ==
    IF parts.t = "arr" THEN [ok |-> TRUE, elems |-> parts.kids]
    ELSE IF parts.t = "str"
         THEN [ok |-> TRUE, elems |-> [k \in 1..Len(parts.s) |-> Val("str", <<parts.s[k]>>, <<>>)]]
    ELSE [ok |-> FALSE, elems |-> <<>>]

TextKey == <<"t","e","x","t">>
CandidatesKey == <<"c","a","n","d","i","d","a","t","e","s">>
ContentKey == <<"c","o","n","t","e","n","t">>
PartsKey == <<"p","a","r","t","s">>

\* api.ts:263-278: the truthy part.text values of one candidate's parts, in order, up to
\* the part (null) whose text cannot be read
RECURSIVE WalkParts(_, _)
WalkParts(elems, k) ==
    LET Part(text, after) ==
            [texts |-> (IF Truthy(text) THEN <<ToStr(text)>> ELSE <<>>) \o after.texts,
             threw |-> after.threw]
    IN  IF k > Len(elems) THEN [texts |-> <<>>, threw |-> FALSE]
        ELSE IF IsNull(elems[k]) THEN [texts |-> <<>>, threw |-> TRUE]
        ELSE Part(Get(elems[k], TextKey), WalkParts(elems, k + 1))

\* WalkCandidates with a fault: the candidates are walked from the last to the first
RECURSIVE WalkCandidatesReversed(_, _)
WalkCandidatesReversed(cands, k) ==
    LET Join(here, after) ==
            [texts |-> after.texts \o here.texts, threw |-> after.threw]
        Rest(here) ==
            IF here.threw THEN here ELSE Join(here, WalkCandidatesReversed(cands, k + 1))
        Visit(it) ==
            IF ~it.ok THEN [texts |-> <<>>, threw |-> TRUE] ELSE WalkParts(it.elems, 1)
        Parts(parts) ==
            Rest(IF ~Truthy(parts) THEN [texts |-> <<>>, threw |-> FALSE]
                 ELSE Visit(PartsOf(parts)))
        Content(content) ==
            Parts(IF Truthy(content) THEN Get(content, PartsKey) ELSE Undefined)
    IN  IF k > Len(cands) THEN [texts |-> <<>>, threw |-> FALSE]
        ELSE IF IsNull(cands[k]) THEN [texts |-> <<>>, threw |-> TRUE]
        ELSE Content(Get(cands[k], ContentKey))

\* api.ts:261-280: the fragments of the candidates, in order, up to the point where
\* reading a property of null or iterating a non-iterable throws
RECURSIVE WalkCandidates(_, _)
WalkCandidates(cands, k) ==
    LET Join(here, after) ==
            [texts |-> here.texts \o after.texts, threw |-> after.threw]
        Rest(here) == IF here.threw THEN here ELSE Join(here, WalkCandidates(cands, k + 1))
        Visit(it) ==
            IF ~it.ok THEN [texts |-> <<>>, threw |-> TRUE] ELSE WalkParts(it.elems, 1)
        Parts(parts) ==
            Rest(IF ~Truthy(parts) THEN [texts |-> <<>>, threw |-> FALSE]
                 ELSE Visit(PartsOf(parts)))
        Content(content) ==
            Parts(IF Truthy(content) THEN Get(content, PartsKey) ELSE Undefined)
    IN  IF k > Len(cands) THEN [texts |-> <<>>, threw |-> FALSE]
        ELSE IF IsNull(cands[k]) THEN [texts |-> <<>>, threw |-> TRUE]
        ELSE Content(Get(cands[k], ContentKey))

-----------------------------------------------------------------------------
(* Accumulation and emission                                               *)

\* one entry of the history `calls`
OnData(text, isFinal) == [cb |-> "onData", text |-> text, final |-> isFinal]
OnComplete == [cb |-> "onComplete", text |-> <<>>, final |-> FALSE]
OnError == [cb |-> "onError", text |-> <<>>, final |-> FALSE]
AbortSignal == [cb |-> "abort", text |-> <<>>, final |-> FALSE]

\* one entry of the history `frags`: the extracted text, the Accumulation before and
\* after it, and the view handed to onData (empty: onData was not called)
Frag(text, before, after, view) ==
    [text |-> text, before |-> before, after |-> after, view |-> view]

\* AppendFormatted with a fault: the new text replaces the Accumulation
AppendReplaces(accumulated, formattedText) == formattedText

\* AppendFormatted with a fault: no duplicate test
AppendAlways(accumulated, formattedText) == accumulated \o formattedText

\* api.ts:340-357: the duplicate test and the concatenation of processTextContent
AppendFormatted(accumulated, formattedText) ==
    IF accumulated # <<>>
    THEN IF Includes(accumulated, formattedText) THEN accumulated
         ELSE accumulated \o formattedText
    ELSE formattedText

\* api.ts:333
processTextContent(text, accumulated) == AppendFormatted(accumulated, formatTextContent(text))

\* api.ts:754
accumulateStreamingContent(newText, accumulated) ==
    IF accumulated = <<>> THEN convertToPlainText(newText)
    ELSE convertToPlainText(accumulated \o <<"\n">> \o newText)

\* api.ts:421-423: the text member of the parsed buffer
BufferText(t, accumulated) ==
    IF t.t = "str" THEN accumulated \o formatTextContent(t.s) ELSE accumulated

\* api.ts:419-430: the try block and its catch
BufferParsed(parsed, buf, accumulated) ==
    IF ~parsed.ok THEN accumulated \o formatTextContent(buf)
    ELSE IF Truthy(parsed.v) THEN BufferText(Get(parsed.v, TextKey), accumulated)
    ELSE accumulated

\* api.ts:416
processBufferContent(buf, accumulated) ==
    IF Trim(buf) = <<>> THEN accumulated ELSE BufferParsed(JsonParse(buf), buf, accumulated)

\* Emit with a fault: onData is called for the first view only
EmitFirstOnly(called, plainTextContent) ==
    IF plainTextContent # <<>> /\ called = <<>>
    THEN Append(called, OnData(plainTextContent, FALSE)) ELSE called

\* api.ts:253-255: onData is called if the view is not empty
Emit(called, plainTextContent) ==
    IF plainTextContent # <<>> THEN Append(called, OnData(plainTextContent, FALSE)) ELSE called

\* api.ts:249-255: the Accumulation is replaced and the view is emitted.
\* st is [acc, calls, frags].
Emitted(st, text, formattedContent, plainTextContent) ==
    [acc   |-> formattedContent,
     calls |-> Emit(st.calls, plainTextContent),
     frags |-> Append(st.frags, Frag(text, st.acc, formattedContent, plainTextContent))]

\* api.ts:248-256: nothing happens if processTextContent returned the empty string
Accumulated(st, text, formattedContent) ==
    IF formattedContent # <<>>
    THEN Emitted(st, text, formattedContent, accumulateStreamingContent(text, formattedContent))
    ELSE [st EXCEPT !.frags = Append(st.frags, Frag(text, st.acc, st.acc, <<>>))]

\* api.ts:246-257 and 265-276: one extracted text
OnFragment(st, text) == Accumulated(st, text, processTextContent(text, st.acc))

\* api.ts:261-280: the extracted texts of one object, in order
RECURSIVE OnFragments(_, _, _)
OnFragments(st, texts, k) ==
    IF k > Len(texts) THEN st ELSE OnFragments(OnFragment(st, texts[k]), texts, k + 1)

-----------------------------------------------------------------------------
(* Fragment assembly: the body of the for loop, api.ts:178-316             *)

DataPrefix == <<"d","a","t","a",":"," ">>
DoneMarker == <<"[","D","O","N","E","]">>

\* api.ts:201-227: the brace depth of jsonData after the scan
BraceScan(s, i, inString, escapeNext, count) ==
    LET Char(st, c) ==
            CASE st.escapeNext -> [st EXCEPT !.escapeNext = FALSE]
              [] c = "\\" -> [st EXCEPT !.escapeNext = TRUE]
              [] c = "\"" -> [st EXCEPT !.inString = ~st.inString]
              [] ~st.inString /\ c = "{" -> [st EXCEPT !.braceCount = st.braceCount + 1]
              [] ~st.inString /\ c = "}" -> [st EXCEPT !.braceCount = st.braceCount - 1]
              [] OTHER -> st
        Body(st) == [Char(st, s[st.i]) EXCEPT !.i = st.i + 1]
    IN  Iterate(Body,
                [i |-> i, inString |-> inString, escapeNext |-> escapeNext, braceCount |-> count],
                Len(s) - i + 1).braceCount

BraceCount(jsonData) == BraceScan(jsonData, 1, FALSE, FALSE, 0)

\* the outcome of one line: the new [acc, calls, frags], the new pending buffer, and the
\* branch taken
Outcome(st, pending, kind) == [st |-> st, pending |-> pending, kind |-> kind]

\* api.ts:261-280 and 285-301: the walk of the candidates, ended by its end or by a throw
Walked(st, w) ==
    Outcome(OnFragments(st, w.texts, 1), <<>>, IF w.threw THEN "threw" ELSE "candidates")

\* HandleCandidates with a fault: an object of neither shape is reported through onError
HandleCandidatesReports(st, cands) ==
    IF cands.t = "arr" THEN Walked(st, WalkCandidates(cands.kids, 1))
    ELSE Outcome([st EXCEPT !.calls = Append(st.calls, OnError)], <<>>, "unexpected")

\* api.ts:258-284: the candidates shape, or neither shape
HandleCandidates(st, cands) ==
    IF cands.t = "arr" THEN Walked(st, WalkCandidates(cands.kids, 1))
    ELSE Outcome(st, <<>>, "unexpected")

\* HandleShape with a fault: the candidates are looked at before the text
HandleShapeCandidatesFirst(st, v, text) ==
    IF Get(v, CandidatesKey).t = "arr" THEN HandleCandidates(st, Get(v, CandidatesKey))
    ELSE IF text.t = "str" THEN Outcome(OnFragment(st, text.s), <<>>, "text")
    ELSE Outcome(st, <<>>, "unexpected")

\* api.ts:245-284: the shape of the parsed object
HandleShape(st, v, text) ==
    IF text.t = "str" THEN Outcome(OnFragment(st, text.s), <<>>, "text")
    ELSE HandleCandidates(st, Get(v, CandidatesKey))

\* api.ts:241-301: the try block and its catch
HandleParsed(st, parsed) ==
    IF ~parsed.ok THEN Outcome(st, <<>>, "parsefail")
    ELSE HandleShape(st, parsed.v, Get(parsed.v, TextKey))

\* HandleComplete with a fault: a payload that fails to parse stays pending
HandleCompleteKeeps(jsonData, st) ==
    IF JsonParse(jsonData).ok THEN HandleParsed(st, JsonParse(jsonData))
    ELSE Outcome(st, jsonData, "parsefail")

\* api.ts:238-301: a payload whose braces balance
HandleComplete(jsonData, st) == HandleParsed(st, JsonParse(jsonData))

\* HandlePayload with a fault: a payload that is no object is kept as pending
HandlePayloadBuffersAll(jsonData, st) ==
    IF StartsWith(jsonData, <<"{">>)
    THEN IF BraceCount(jsonData) = 0 THEN HandleComplete(jsonData, st)
         ELSE Outcome(st, jsonData, "buffered")
    ELSE Outcome(st, jsonData, "buffered")

\* api.ts:199-314: the payload joined with the pending buffer
HandlePayload(jsonData, st) ==
    IF StartsWith(jsonData, <<"{">>)
    THEN IF BraceCount(jsonData) = 0 THEN HandleComplete(jsonData, st)
         ELSE Outcome(st, jsonData, "buffered")
    ELSE IF StartsWith(jsonData, <<"[">>) THEN Outcome(st, <<>>, "array")
    ELSE Outcome(st, <<>>, "nonjson")

\* api.ts:182-196: the sentinel, the empty payload, the pending buffer
HandleData(data, st, pending) ==
    IF data = DoneMarker THEN Outcome(st, pending, "sentinel")
    ELSE IF data = <<>> THEN Outcome(st, pending, "empty")
    ELSE HandlePayload(pending \o data, st)

\* api.ts:179-315: one line of the chunk
HandleLine(line, st, pending) ==
    IF ~StartsWith(line, DataPrefix) THEN Outcome(st, pending, "ignored")
    ELSE HandleData(Trim(SliceFrom(line, 6)), st, pending)

-----------------------------------------------------------------------------
(* The inbound stream: what one reader.read() may return.  Any sequence of *)
(* these chunks is a stream the upstream could send.                        *)

\* the first event of the scenario of spec section 8
ChHello ==
    <<"d","a","t","a",":"," ","{","\"","t","e","x","t","\"",":","\"","H","e","l","l","o"," ","\"","}","\n">>

\* an object cut inside a key: first half
ChTe ==
    <<"d","a","t","a",":"," ","{","\"","t","e","\n">>

\* second half
ChXt ==
    <<"d","a","t","a",":"," ","x","t","\"",":","\"","w","o","r","l","d","\"","}","\n">>

\* the completion sentinel
ChDone ==
    <<"d","a","t","a",":"," ","[","D","O","N","E","]","\n">>

\* an empty fragment
ChEmptyText ==
    <<"d","a","t","a",":"," ","{","\"","t","e","x","t","\"",":","\"","\"","}","\n">>

\* a malformed object: one closing brace too many
ChExtraBrace ==
    <<"d","a","t","a",":"," ","{","\"","t","e","x","t","\"",":","\"","a","\"","}","}","\n">>

\* a malformed object whose braces balance: a stray character after the string
ChBadQuote ==
    <<"d","a","t","a",":"," ","{","\"","t","e","x","t","\"",":","\"","a","\"","b","}","\n">>

\* a malformed object: the closing quote of the string is missing
ChOddQuote ==
    <<"d","a","t","a",":"," ","{","\"","t","e","x","t","\"",":","\"","a","}","\n">>

\* the candidates shape, two parts
ChCands ==
    <<"d","a","t","a",":"," ","{","\"","c","a","n","d","i","d","a","t","e","s","\"",":","[","{","\"","c","o","n","t","e","n","t","\"",":","{","\"","p","a","r","t","s","\"",":","[","{","\"","t","e","x","t","\"",":","\"","a","\"","}",",","{","\"","t","e","x","t","\"",":","\"","b","\"","}","]","}","}","]","}","\n">>

\* the candidates shape, a part and then a null candidate
ChCandsNull ==
    <<"d","a","t","a",":"," ","{","\"","c","a","n","d","i","d","a","t","e","s","\"",":","[","{","\"","c","o","n","t","e","n","t","\"",":","{","\"","p","a","r","t","s","\"",":","[","{","\"","t","e","x","t","\"",":","\"","c","\"","}","]","}","}",",","n","u","l","l","]","}","\n">>

\* an object of neither shape
ChOther ==
    <<"d","a","t","a",":"," ","{","\"","x","\"",":","\"","a","\"","}","\n">>

\* array data
ChArray ==
    <<"d","a","t","a",":"," ","[","1","]","\n">>

\* a line that is no data line
ChComment ==
    <<":"," ","p","i","n","g","\n">>

\* two events in one read
ChTwoLines ==
    <<"d","a","t","a",":"," ","{","\"","t","e","x","t","\"",":","\"","a","\"","}","\n","d","a","t","a",":"," ","{","\"","t","e","x","t","\"",":","\"","b","\"","}","\n">>

\* a data line without its newline
ChTail ==
    <<"d","a","t","a",":"," ","{","\"","t","e","x","t","\"",":","\"","c","\"","}">>

\* a text that holds a character reference of a character reference: &amp;lt;
ChAmpLt ==
    <<"d","a","t","a",":"," ","{","\"","t","e","x","t","\"",":","\"","&","a","m","p",";","l","t",";","\"","}","\n">>

\* a text that holds a character reference: &lt;
ChLt ==
    <<"d","a","t","a",":"," ","{","\"","t","e","x","t","\"",":","\"","&","l","t",";","\"","}","\n">>

Chunks ==
    {ChHello, ChTe, ChXt, ChDone, ChEmptyText,
     ChExtraBrace, ChBadQuote, ChOddQuote, ChCands, ChCandsNull, ChOther,
     ChArray, ChComment, ChTwoLines, ChTail, ChAmpLt, ChLt}

\* the number of reads that return a chunk in one session
MaxReads == 4

\* split delivery: objects the upstream may cut into several events, anywhere
ObjSpace ==
    <<"{","\"","t","e","x","t","\"",":","\"","a"," ","b","\"","}">>

ObjEscaped ==
    <<"{","\"","t","e","x","t","\"",":","\"","a","\\","\"","b","\"","}">>

ObjBrace ==
    <<"{","\"","t","e","x","t","\"",":","\"","a","}","b","\"","}">>

SplitObjects == {ObjSpace, ObjEscaped, ObjBrace}

\* split delivery: the number of events one object is cut into, at most
MaxPieces == 3

-----------------------------------------------------------------------------
(* streamContract (api.ts:111): the read loop                              *)

\* the value of `last`
Step(kind, acc0, ncalls0, pending0) ==
    [kind |-> kind, acc0 |-> acc0, ncalls0 |-> ncalls0, pending0 |-> pending0]

\* one entry of the history `handled`
Handled(line, pending0, out) ==
    [line |-> line, pending0 |-> pending0, pending |-> out.pending, kind |-> out.kind]

\* the state after fetch resolved and the reader was taken (api.ts:134-140)
Init ==
    /\ pc = "top"
    /\ aborted = FALSE
    /\ buffer = <<>>
    /\ accumulatedContent = <<>>
    /\ incompleteJsonBuffer = <<>>
    /\ lines = <<>>
    /\ calls = <<>>
    /\ frags = <<>>
    /\ handled = <<>>
    /\ last = Step("start", <<>>, 0, <<>>)
    /\ reads = <<>>
    /\ whole = <<>>
    /\ rest = <<>>

\* api.ts:144-148: the signal is looked at, then the read is issued
CheckSignal ==
    /\ pc = "top"
    /\ pc' = IF aborted THEN "cancelled" ELSE "reading"
    /\ last' = Step("check", accumulatedContent, Len(calls), incompleteJsonBuffer)
    /\ UNCHANGED <<aborted, buffer, accumulatedContent, incompleteJsonBuffer, lines,
                   calls, frags, handled, reads, whole, rest>>

\* TakeChunk with a fault: the unterminated tail of the read before is not carried over
TakeChunkDropsTail(chunk) ==
    \E all \in {SplitLines(chunk)} :
        /\ buffer' = all[Len(all)]
        /\ lines' = SubSeq(all, 1, Len(all) - 1)
        /\ pc' = IF Len(all) > 1 THEN "lines" ELSE "top"
        /\ reads' = Append(reads, chunk)
        /\ last' = Step("read", accumulatedContent, Len(calls), incompleteJsonBuffer)
        /\ UNCHANGED <<aborted, accumulatedContent, incompleteJsonBuffer, calls, frags, handled>>

\* api.ts:171-176: the read returned a chunk; it is cut into lines
TakeChunk(chunk) ==
    \E all \in {SplitLines(buffer \o chunk)} :
        /\ buffer' = all[Len(all)]
        /\ lines' = SubSeq(all, 1, Len(all) - 1)
        /\ pc' = IF Len(all) > 1 THEN "lines" ELSE "top"
        /\ reads' = Append(reads, chunk)
        /\ last' = Step("read", accumulatedContent, Len(calls), incompleteJsonBuffer)
        /\ UNCHANGED <<aborted, accumulatedContent, incompleteJsonBuffer, calls, frags, handled>>

\* a pending read returns data only while the fetch has not been aborted (api.ts:123)
ReadChunk ==
    /\ pc = "reading"
    /\ ~aborted
    /\ Len(reads) < MaxReads
    /\ \E chunk \in Chunks : TakeChunk(chunk)
    /\ UNCHANGED <<whole, rest>>

\* api.ts:178-316: one iteration of the for loop over the lines of the chunk
ProcessLine ==
    /\ pc = "lines"
    /\ \E out \in {HandleLine(Head(lines),
                             [acc |-> accumulatedContent, calls |-> calls, frags |-> frags],
                             incompleteJsonBuffer)} :
           /\ accumulatedContent' = out.st.acc
           /\ calls' = out.st.calls
           /\ frags' = out.st.frags
           /\ incompleteJsonBuffer' = out.pending
           /\ handled' = Append(handled, Handled(Head(lines), incompleteJsonBuffer, out))
           /\ last' = Step(out.kind, accumulatedContent, Len(calls), incompleteJsonBuffer)
    /\ lines' = Tail(lines)
    /\ pc' = IF Len(lines) > 1 THEN "lines" ELSE "top"
    /\ UNCHANGED <<aborted, buffer, reads, whole, rest>>

\* FinalCalls with a fault: onComplete is called before the final view
FinalCallsCompleteFirst(acc1, called) ==
    [acc   |-> acc1,
     calls |-> Append(called, OnComplete)
               \o (IF acc1 # <<>>
                   THEN <<OnData(convertToPlainText(cleanupAccumulatedContent(acc1)), TRUE)>>
                   ELSE <<>>)]

\* FinalCalls with a fault: onComplete is called before the final view and after it
FinalCallsCompleteTwice(acc1, called) ==
    [acc   |-> acc1,
     calls |-> Append(called, OnComplete)
               \o (IF acc1 # <<>>
                   THEN <<OnData(convertToPlainText(cleanupAccumulatedContent(acc1)), TRUE)>>
                   ELSE <<>>)
               \o <<OnComplete>>]

\* api.ts:160-168: the final view, if the Accumulation is not empty, and onComplete
FinalCalls(acc1, called) ==
    [acc   |-> acc1,
     calls |-> (IF acc1 # <<>>
                THEN Append(called, OnData(convertToPlainText(cleanupAccumulatedContent(acc1)), TRUE))
                ELSE called) \o <<OnComplete>>]

\* api.ts:152-157: the flush of the line buffer
Flushed(buf, accumulated, finalContent) ==
    IF Trim(buf) # <<>> /\ finalContent # <<>> THEN finalContent ELSE accumulated

\* api.ts:150-168: the flush of the line buffer, the final view and onComplete
Finish(buf, accumulated, called) ==
    FinalCalls(Flushed(buf, accumulated, processBufferContent(buf, accumulated)), called)

\* api.ts:150-169: the read reported the end of the stream
ReadDone ==
    /\ pc = "reading"
    /\ ~aborted
    /\ \E fin \in {Finish(buffer, accumulatedContent, calls)} :
           /\ accumulatedContent' = fin.acc
           /\ calls' = fin.calls
    /\ pc' = "done"
    /\ last' = Step("eos", accumulatedContent, Len(calls), incompleteJsonBuffer)
    /\ UNCHANGED <<aborted, buffer, incompleteJsonBuffer, lines, frags, handled, reads,
                   whole, rest>>

\* ReadFail with a fault: after the report the read is issued again
ReadFailRetries ==
    /\ pc = "reading"
    /\ pc' = IF aborted THEN "cancelled" ELSE "reading"
    /\ calls' = IF aborted THEN calls ELSE Append(calls, OnError)
    /\ last' = Step("reject", accumulatedContent, Len(calls), incompleteJsonBuffer)
    /\ UNCHANGED <<aborted, buffer, accumulatedContent, incompleteJsonBuffer, lines,
                   frags, handled, reads, whole, rest>>

\* ReadFail with a fault: the AbortError is reported through onError like any other
ReadFailReportsAbort ==
    /\ pc = "reading"
    /\ pc' = IF aborted THEN "cancelled" ELSE "failed"
    /\ calls' = Append(calls, OnError)
    /\ last' = Step("reject", accumulatedContent, Len(calls), incompleteJsonBuffer)
    /\ UNCHANGED <<aborted, buffer, accumulatedContent, incompleteJsonBuffer, lines,
                   frags, handled, reads, whole, rest>>

\* api.ts:321-328: the read rejected; an AbortError (the fetch was aborted) ends the
\* session silently, any other error is reported through onError
ReadFail ==
    /\ pc = "reading"
    /\ pc' = IF aborted THEN "cancelled" ELSE "failed"
    /\ calls' = IF aborted THEN calls ELSE Append(calls, OnError)
    /\ last' = Step("reject", accumulatedContent, Len(calls), incompleteJsonBuffer)
    /\ UNCHANGED <<aborted, buffer, accumulatedContent, incompleteJsonBuffer, lines,
                   frags, handled, reads, whole, rest>>

\* the caller triggers its AbortSignal (api.ts:114, 123): while the read is pending, or
\* from inside an onData callback that the loop has just invoked
Abort ==
    /\ ~aborted
    /\ \/ pc = "reading"
       \/ pc \in {"lines", "top"} /\ Len(calls) > last.ncalls0
    /\ aborted' = TRUE
    /\ calls' = Append(calls, AbortSignal)
    /\ UNCHANGED <<pc, buffer, accumulatedContent, incompleteJsonBuffer, lines, frags,
                   handled, last, reads, whole, rest>>

Next ==
    \/ CheckSignal
    \/ ReadChunk
    \/ ProcessLine
    \/ ReadDone
    \/ ReadFail
    \/ Abort

Spec == Init /\ [][Next]_vars

-----------------------------------------------------------------------------
(* Split delivery: one object of SplitObjects reaches the loop cut into at  *)
(* most MaxPieces events, each piece on a data line of its own.             *)

\* the read returns the first k characters of what is left of the object
Deliver(object, left, k) ==
    /\ whole' = object
    /\ rest' = SubSeq(left, k + 1, Len(left))
    /\ TakeChunk(DataPrefix \o SubSeq(left, 1, k) \o <<"\n">>)

\* the cuts the next piece may end at: the last piece ends the object
Cuts(left) == IF Len(reads) + 1 >= MaxPieces THEN {Len(left)} ELSE 1..Len(left)

SplitRead ==
    /\ pc = "reading"
    /\ ~aborted
    /\ \/ /\ whole = <<>>
          /\ \E object \in SplitObjects : \E k \in Cuts(object) : Deliver(object, object, k)
       \/ /\ rest # <<>>
          /\ \E k \in Cuts(rest) : Deliver(whole, rest, k)

NextSplit ==
    \/ CheckSignal
    \/ SplitRead
    \/ ProcessLine
    \/ ReadDone

SpecSplit == Init /\ [][NextSplit]_vars

-----------------------------------------------------------------------------
(* Properties of the streaming session                                     *)

\* the texts of a fragment history, in order
Texts(h) == [k \in DOMAIN h |-> h[k].text]

\* the positions in `calls` of the onData invocations with the given final flag
DataCalls(isFinal) == {k \in DOMAIN calls : calls[k].cb = "onData" /\ calls[k].final = isFinal}

\* the positions in `calls` of the onComplete invocations
CompleteCalls == {k \in DOMAIN calls : calls[k].cb = "onComplete"}

\* the loop has handled every line of every chunk read so far
Idle == pc = "top" /\ lines = <<>>

\* a session that has seen nothing yet
Fresh == [acc |-> <<>>, calls |-> <<>>, frags |-> <<>>]

\* the line a chunk of one event is made of
LineOf(chunk) == SubSeq(chunk, 1, Len(chunk) - 1)

\* the completion sentinel has been handled as an event
SentinelSeen == \E k \in DOMAIN handled : handled[k].kind = "sentinel"

HelloWorld == <<"H","e","l","l","o"," ","w","o","r","l","d">>

\* C1 (SpecSplit): once every piece of an object cut into consecutive events has been
\* handled, the texts extracted are the texts a single event holding the whole object
\* yields, and the pending buffer is empty.
C1_SplitEquivalence ==
    (whole # <<>> /\ rest = <<>> /\ Idle) =>
        /\ Texts(frags) = Texts(HandleLine(DataPrefix \o whole, Fresh, <<>>).st.frags)
        /\ incompleteJsonBuffer = <<>>

\* the events of the scenario of C2, one per read
ScenarioReads == <<ChHello, ChTe, ChXt, ChDone>>

\* C2: after the events {"text":"Hello "}, {"te, xt":"world"}, [DONE] and the end of the
\* stream, onData was called exactly twice with final false and growing text, the second
\* text ending in "Hello world", then exactly once with final true and "Hello world",
\* and then onComplete.
C2_HelloWorldScenario ==
    (pc = "done" /\ reads = ScenarioReads) =>
        /\ Len(calls) = 4
        /\ calls[1].cb = "onData" /\ ~calls[1].final
        /\ calls[2].cb = "onData" /\ ~calls[2].final
        /\ Len(calls[2].text) > Len(calls[1].text)
        /\ EndsWith(calls[2].text, HelloWorld)
        /\ calls[3] = OnData(HelloWorld, TRUE)
        /\ calls[4] = OnComplete

C4_SilentAfterCancel ==
    \A i \in DOMAIN calls : \A j \in DOMAIN calls :
        (calls[i] = AbortSignal /\ i < j) => calls[j].cb \notin {"onData", "onComplete", "onError"}

DuplicateReads == <<ChHello, ChHello>>

\* C6: a fragment that leaves the Accumulation unchanged causes no onData; after the event
\* {"text":"Hello "} delivered twice there has been one onData with final false.
C6_NoEmissionWithoutChange ==
    /\ \A k \in DOMAIN frags : frags[k].after = frags[k].before => frags[k].view = <<>>
    /\ (reads = DuplicateReads /\ Idle) => Cardinality(DataCalls(FALSE)) = 1

\* C7: the Accumulation never shrinks: across every step of the session (a line handled,
\* the flush at the end of the stream) and across every fragment within a step, the old
\* value is a prefix of the new one.
C7_NeverShrinks ==
    [][/\ IsPrefix(accumulatedContent, accumulatedContent')
       /\ \A k \in DOMAIN frags' : IsPrefix(frags'[k].before, frags'[k].after)]_vars

\* C7's case: fragments have grown the Accumulation and the flush at the end of the
\* stream has grown it again
C7_Witness ==
    pc = "done" /\ last.acc0 # <<>> /\ Len(accumulatedContent) > Len(last.acc0)

\* events that hold one malformed object
MalformedLines == {LineOf(ChExtraBrace), LineOf(ChOddQuote), LineOf(ChBadQuote)}

\* events that hold one well-formed object with text in it
WellFormedLines == {LineOf(ChHello), LineOf(ChLt), LineOf(ChCands)}

\* C8: a well-formed object in the event after a malformed object (which itself arrived
\* with nothing pending) is extracted and handed on.
C8_RecoversAfterMalformed ==
    \A k \in 2..Len(handled) :
        (/\ handled[k - 1].pending0 = <<>>
         /\ handled[k - 1].line \in MalformedLines
         /\ handled[k].line \in WellFormedLines)
            => handled[k].kind \in {"text", "candidates"}

\* the branches of a payload whose braces balance but which is not valid JSON, or which
\* throws while its candidates are walked
FailedKinds == {"parsefail", "threw"}

C10_ViewOfAccumulation ==
    \A k \in DOMAIN frags :
        frags[k].view # <<>> => frags[k].view = convertToPlainText(frags[k].after)

-----------------------------------------------------------------------------
(* The whole session: the fetch that precedes the loop (api.ts:117-134),   *)
(* then the loop over a catalogue of documents and response shapes.        *)

\* the completion sentinel without its newline
ChDoneTail ==
    <<"d","a","t","a",":"," ","[","D","O","N","E","]">>

\* a text that starts with a heading
ChHeading ==
    <<"d","a","t","a",":"," ","{","\"","t","e","x","t","\"",":","\"","<","h","2",">","T","<","/","h","2",">","b","\"","}","\n">>

\* an object of both shapes: a string text and candidates
ChBoth ==
    <<"d","a","t","a",":"," ","{","\"","t","e","x","t","\"",":","\"","t","\"",",","\"","c","a","n","d","i","d","a","t","e","s","\"",":","[","{","\"","c","o","n","t","e","n","t","\"",":","{","\"","p","a","r","t","s","\"",":","[","{","\"","t","e","x","t","\"",":","\"","u","\"","}","]","}","}","]","}","\n">>

\* candidates beside a text that is not a string
ChTextNum ==
    <<"d","a","t","a",":"," ","{","\"","t","e","x","t","\"",":","1",",","\"","c","a","n","d","i","d","a","t","e","s","\"",":","[","{","\"","c","o","n","t","e","n","t","\"",":","{","\"","p","a","r","t","s","\"",":","[","{","\"","t","e","x","t","\"",":","\"","u","\"","}","]","}","}","]","}","\n">>

\* two candidates with parts, one without content; parts with text, without text, with empty text
ChCandsMixed ==
    <<"d","a","t","a",":"," ","{","\"","c","a","n","d","i","d","a","t","e","s","\"",":","[","{","\"","c","o","n","t","e","n","t","\"",":","{","\"","p","a","r","t","s","\"",":","[","{","\"","t","e","x","t","\"",":","\"","a","\"","}",",","{","\"","x","\"",":","1","}",",","{","\"","t","e","x","t","\"",":","\"","\"","}","]","}","}",",","{","\"","x","\"",":","1","}",",","{","\"","c","o","n","t","e","n","t","\"",":","{","\"","p","a","r","t","s","\"",":","[","{","\"","t","e","x","t","\"",":","\"","b","\"","}","]","}","}","]","}","\n">>

SessionChunks ==
    {ChHello, ChTwoLines, ChTail, ChDone, ChDoneTail, ChHeading, ChBoth, ChTextNum, ChCandsMixed}

\* the number of reads that return a chunk in one whole session
MaxSessionReads == 3

\* the state when streamContract is called: the fetch is pending (api.ts:118)
InitFetch ==
    /\ pc = "fetching"
    /\ aborted = FALSE
    /\ buffer = <<>>
    /\ accumulatedContent = <<>>
    /\ incompleteJsonBuffer = <<>>
    /\ lines = <<>>
    /\ calls = <<>>
    /\ frags = <<>>
    /\ handled = <<>>
    /\ last = Step("start", <<>>, 0, <<>>)
    /\ reads = <<>>
    /\ whole = <<>>
    /\ rest = <<>>

\* api.ts:118-140: the response is OK and has a body; the reader is taken
FetchOk ==
    /\ pc = "fetching"
    /\ ~aborted
    /\ pc' = "top"
    /\ last' = Step("fetched", accumulatedContent, Len(calls), incompleteJsonBuffer)
    /\ UNCHANGED <<aborted, buffer, accumulatedContent, incompleteJsonBuffer, lines,
                   calls, frags, handled, reads, whole, rest>>

\* errorHandling.ts, not among the sources: handleApiResponse throws for a response that
\* is not OK, and createUserFriendlyError returns the Error that is thrown or reported
HandleApiResponseThrows == TRUE

\* api.ts:118-132, 321-328: the fetch rejects (an AbortError if the fetch was aborted),
\* the response is not OK, or it has no body; the catch reports all but the AbortError
FetchFail ==
    /\ pc = "fetching"
    /\ HandleApiResponseThrows
    /\ pc' = IF aborted THEN "cancelled" ELSE "failed"
    /\ calls' = IF aborted THEN calls ELSE Append(calls, OnError)
    /\ last' = Step("reject", accumulatedContent, Len(calls), incompleteJsonBuffer)
    /\ UNCHANGED <<aborted, buffer, accumulatedContent, incompleteJsonBuffer, lines,
                   frags, handled, reads, whole, rest>>

\* the caller triggers its AbortSignal while the fetch is pending (api.ts:122)
AbortFetch ==
    /\ pc = "fetching"
    /\ ~aborted
    /\ aborted' = TRUE
    /\ calls' = Append(calls, AbortSignal)
    /\ UNCHANGED <<pc, buffer, accumulatedContent, incompleteJsonBuffer, lines, frags,
                   handled, last, reads, whole, rest>>

\* a pending read returns one chunk of the catalogue
ReadSessionChunk ==
    /\ pc = "reading"
    /\ ~aborted
    /\ Len(reads) < MaxSessionReads
    /\ \E chunk \in SessionChunks : TakeChunk(chunk)
    /\ UNCHANGED <<whole, rest>>

NextSession ==
    \/ FetchOk
    \/ FetchFail
    \/ AbortFetch
    \/ CheckSignal
    \/ ReadSessionChunk
    \/ ProcessLine
    \/ ReadDone
    \/ ReadFail
    \/ Abort

SpecSession == InitFetch /\ [][NextSession]_vars

-----------------------------------------------------------------------------
(* An incomplete object that never ends: the first event opens an object   *)
(* inside a key, every later event continues the key.                      *)

\* two more characters of the key
ChMore ==
    <<"d","a","t","a",":"," ","x","t","\n">>

\* the number of events of the object that never ends
MaxGrow == 40

ReadMore ==
    /\ pc = "reading"
    /\ ~aborted
    /\ Len(reads) < MaxGrow
    /\ TakeChunk(IF reads = <<>> THEN ChTe ELSE ChMore)
    /\ UNCHANGED <<whole, rest>>

NextGrow ==
    \/ CheckSignal
    \/ ReadMore
    \/ ProcessLine
    \/ ReadDone

SpecGrow == Init /\ [][NextGrow]_vars

-----------------------------------------------------------------------------
(* Properties of the final view, the emissions and the outcomes            *)

\* C11: the view handed to onData with final true is the plain-text form of the whole
\* Accumulation as it is at the end of the stream.
C11_FinalViewOfAccumulation ==
    pc = "done" =>
        \A j \in DataCalls(TRUE) : calls[j].text = convertToPlainText(accumulatedContent)

\* the texts of the onData invocations with final false, in order
NonFinalTexts ==
    [k \in DOMAIN SelectSeq(calls, LAMBDA c : c.cb = "onData" /\ ~c.final) |->
        SelectSeq(calls, LAMBDA c : c.cb = "onData" /\ ~c.final)[k].text]

\* the views computed for the fragments so far, in order, the empty ones left out
FragmentViews ==
    [k \in DOMAIN SelectSeq(frags, LAMBDA f : f.view # <<>>) |->
        SelectSeq(frags, LAMBDA f : f.view # <<>>)[k].view]

C13_AppendsTextUnchanged ==
    \A k \in DOMAIN frags :
        ~Includes(frags[k].before, frags[k].text) =>
            frags[k].after = frags[k].before \o frags[k].text

\* C14: at the end of the stream a last line without its newline is handled like any other
\* line: the Accumulation is what the for loop makes of that line.
C14_TailHandledAsLine ==
    (pc = "done" /\ Trim(buffer) # <<>>) =>
        accumulatedContent =
            HandleLine(buffer, [acc |-> last.acc0, calls |-> <<>>, frags |-> <<>>],
                       last.pending0).st.acc

\* a maximum size for the pending buffer; the buffer of SpecGrow holds two characters
\* more after every event, so it passes any size the events are allowed to reach
PendingCap == 64

\* C15 (SpecGrow): the pending buffer never holds more than a fixed number of characters.
C15_PendingBufferBounded == Len(incompleteJsonBuffer) <= PendingCap

\* the positions in `calls` of the onError invocations
ErrorCalls == {k \in DOMAIN calls : calls[k].cb = "onError"}

\* the session has ended
Terminated == pc \in {"done", "failed", "cancelled"}

\* C16: in every session onError is invoked at most once and onComplete at most once.
C16_AtMostOnce ==
    /\ Cardinality(ErrorCalls) <= 1
    /\ Cardinality(CompleteCalls) <= 1

\* C16's case: sessions that have invoked one of the two, after views were emitted
C16_Witness ==
    /\ Terminated
    /\ DataCalls(FALSE) # {}
    /\ ErrorCalls # {}

PayloadOf(h) == h.pending0 \o Trim(SliceFrom(h.line, 6))

\* the kinds of the entries of `handled` whose payload was parsed into an object
ParsedKinds == {"text", "candidates", "threw", "unexpected"}

\* the text member of the object parsed for an entry of `handled`
TextOf(h) == Get(JsonParse(PayloadOf(h)).v, TextKey)

\* the fragments a step has added to `frags`, and the views it has handed to onData
NewFrags == SubSeq(frags', Len(frags) + 1, Len(frags'))
NewCalls == SubSeq(calls', Len(calls) + 1, Len(calls'))

\* the shape rule for the line a step has handled
ShapeRule(h) ==
    h.kind \in ParsedKinds =>
        /\ TextOf(h).t = "str" =>
              /\ h.kind = "text"
              /\ Len(NewFrags) = 1
              /\ NewFrags[1].text = TextOf(h).s
        /\ h.kind \in {"candidates", "threw"} => TextOf(h).t # "str"
        /\ h.kind # "text" => \A k \in DOMAIN NewFrags : NewFrags[k].text # TextOf(h).s

\* C19: the two shapes are tried in order and exclude each other: an object whose text
\* member is a string yields that string as its one fragment, whatever its candidates
\* member holds; the candidates are walked only if text is absent or is not a string.
C19_TextShapeFirst ==
    [][handled' # handled => ShapeRule(handled'[Len(handled')])]_vars

\* C19's case: an object with a string text and a candidates array has been handled, and
\* so has an object with a text that is not a string and a candidates array
C19_Witness ==
    /\ \E k \in DOMAIN handled :
          /\ handled[k].kind = "text"
          /\ Get(JsonParse(PayloadOf(handled[k])).v, CandidatesKey).t = "arr"
    /\ \E k \in DOMAIN handled :
          /\ handled[k].kind = "candidates"
          /\ TextOf(handled[k]).t = "num"

\* the parts of candidate c of an object, where the candidate has a content with a parts
\* array
PartsAt(v, c) ==
    LET cands == Get(v, CandidatesKey)
        parts == Get(Get(cands.kids[c], ContentKey), PartsKey)
    IN  IF parts.t = "arr" THEN parts.kids ELSE <<>>

\* the positions <<candidate, part>> of the parts whose text is a string that is not empty
TextParts(v) ==
    {q \in UNION {{c} \X (1..Len(PartsAt(v, c))) : c \in 1..Len(Get(v, CandidatesKey).kids)} :
        /\ Get(PartsAt(v, q[1])[q[2]], TextKey).t = "str"
        /\ Get(PartsAt(v, q[1])[q[2]], TextKey).s # <<>>}

\* the number of text parts up to and including position q, in array order
RankOf(v, q) ==
    Cardinality({r \in TextParts(v) : r[1] < q[1] \/ (r[1] = q[1] /\ r[2] <= q[2])})

\* the views among the fragments a step has added, in order
NewViews ==
    [k \in DOMAIN SelectSeq(NewFrags, LAMBDA f : f.view # <<>>) |->
        SelectSeq(NewFrags, LAMBDA f : f.view # <<>>)[k].view]

\* the candidates rule for the line a step has handled
CandidatesRule(h) ==
    h.kind = "candidates" =>
        /\ Len(NewFrags) = Cardinality(TextParts(JsonParse(PayloadOf(h)).v))
        /\ \A q \in TextParts(JsonParse(PayloadOf(h)).v) :
              NewFrags[RankOf(JsonParse(PayloadOf(h)).v, q)].text =
                  Get(PartsAt(JsonParse(PayloadOf(h)).v, q[1])[q[2]], TextKey).s
        /\ \A k \in 1..(Len(NewFrags) - 1) : NewFrags[k + 1].before = NewFrags[k].after
        /\ [k \in DOMAIN NewCalls |-> NewCalls[k].text] = NewViews

\* C20: for an object of the candidates shape, every part whose text is a string (not
\* empty) yields one fragment; the fragments are accumulated and emitted in the order of
\* the arrays, candidate by candidate and part by part; a part without a text, and a
\* candidate without content, yield nothing.
C20_PartsInOrder ==
    [][handled' # handled => CandidatesRule(handled'[Len(handled')])]_vars

\* C20's case: two candidates with text parts, a part without text and a candidate
\* without content between them, have yielded two fragments
C20_Witness ==
    \E k \in DOMAIN handled :
        /\ handled[k].kind = "candidates"
        /\ Cardinality(TextParts(JsonParse(PayloadOf(handled[k])).v)) = 2
        /\ \E i \in DOMAIN frags :
              /\ i < Len(frags)
              /\ frags[i].text = <<"a">> /\ frags[i + 1].text = <<"b">>
              /\ frags[i + 1].after # frags[i + 1].before

-----------------------------------------------------------------------------
(* Events without content: objects of neither shape, the sentinel, empty    *)
(* payloads, arrays, bare words and lines that are no data lines            *)
(* (api.ts:179-199, 281-284, 308-314)                                       *)

\* an object of neither shape cut into two events
ChOtherHead ==
    <<"d","a","t","a",":"," ","{","\"","x","\"",":","\n">>

ChOtherTail ==
    <<"d","a","t","a",":"," ","\"","a","\"","}","\n">>

\* an object of neither shape: text is null, candidates is no array
ChNeither ==
    <<"d","a","t","a",":"," ","{","\"","t","e","x","t","\"",":","n","u","l","l",",","\"","c","a","n","d","i","d","a","t","e","s","\"",":","\"","x","\"","}","\n">>

\* a data line whose payload is blank
ChEmptyPayload ==
    <<"d","a","t","a",":"," "," "," ","\n">>

\* a data line whose payload is a bare word
ChWord ==
    <<"d","a","t","a",":"," ","p","i","n","g","\n">>

\* a line that is no data line, without its newline
ChCommentTail ==
    <<":"," ","p","i","n","g">>

FrameChunks ==
    {ChHello, ChOther, ChOtherHead, ChOtherTail, ChNeither, ChDone, ChEmptyPayload,
     ChArray, ChWord, ChComment, ChCommentTail, ChTe}

\* the number of reads that return a chunk in one session of SpecFrames
MaxFrameReads == 4

ReadFrameChunk ==
    /\ pc = "reading"
    /\ ~aborted
    /\ Len(reads) < MaxFrameReads
    /\ \E chunk \in FrameChunks : TakeChunk(chunk)
    /\ UNCHANGED <<whole, rest>>

NextFrames ==
    \/ CheckSignal
    \/ ReadFrameChunk
    \/ ProcessLine
    \/ ReadDone

SpecFrames == Init /\ [][NextFrames]_vars

-----------------------------------------------------------------------------
(* Properties of events without content                                    *)

\* the line a step has handled
NewHandled == handled'[Len(handled')]

\* the trimmed text after "data: " of an entry of `handled`
DataOf(h) == Trim(SliceFrom(h.line, 6))

\* an object that has neither a text string nor a candidates array
NeitherShape(v) ==
    /\ v.t = "obj"
    /\ Get(v, TextKey).t # "str"
    /\ Get(v, CandidatesKey).t # "arr"

\* the entry of `handled` completes a parseable object of neither shape
CompletesNeither(h) ==
    /\ StartsWith(h.line, DataPrefix)
    /\ DataOf(h) \notin {DoneMarker, <<>>}
    /\ JsonParse(PayloadOf(h)).ok
    /\ NeitherShape(JsonParse(PayloadOf(h)).v)

\* C21: the event that completes a parseable object of neither shape leaves the
\* Accumulation as it was, invokes no callback and yields no fragment; the pending
\* buffer is empty afterwards, as it was before the object began; and the loop goes on
\* to the next line or the next read.
C21_NeitherShapeIsSilent ==
    [][(handled' # handled /\ CompletesNeither(NewHandled)) =>
          /\ accumulatedContent' = accumulatedContent
          /\ calls' = calls
          /\ frags' = frags
          /\ incompleteJsonBuffer' = <<>>
          /\ (NewHandled.pending0 = <<>> => incompleteJsonBuffer' = incompleteJsonBuffer)
          /\ pc' \in {"lines", "top"}]_vars

\* C21's case: after a fragment, an object of neither shape was handled, whole and cut
\* in two; and an event that came after such an object has yielded its fragment
C21_Witness ==
    /\ \E k \in DOMAIN handled :
          /\ CompletesNeither(handled[k])
          /\ handled[k].pending0 # <<>>
    /\ \E k \in DOMAIN handled :
          /\ k < Len(handled)
          /\ CompletesNeither(handled[k])
          /\ handled[k].pending0 = <<>>
          /\ handled[k + 1].kind = "text"

\* the entry of `handled` is a data line whose payload is the sentinel, is empty, or
\* (the pending buffer being empty) does not begin with an opening brace
PayloadWithoutObject(h) ==
    /\ StartsWith(h.line, DataPrefix)
    /\ \/ DataOf(h) = DoneMarker
       \/ DataOf(h) = <<>>
       \/ h.pending0 = <<>> /\ Head(DataOf(h)) # "{"

\* C22: a payload that is the sentinel or empty, and, with an empty pending buffer, a
\* payload that begins with "[" or with any character other than "{", changes neither
\* the Accumulation nor the pending buffer and invokes no callback.
C22_PayloadWithoutObjectIsNoOp ==
    [][(handled' # handled /\ PayloadWithoutObject(NewHandled)) =>
          /\ accumulatedContent' = accumulatedContent
          /\ incompleteJsonBuffer' = incompleteJsonBuffer
          /\ calls' = calls
          /\ frags' = frags]_vars

\* C22's case: with a fragment accumulated, the sentinel has been handled while an
\* object was pending, and an array or a bare word while none was
C22_Witness ==
    /\ accumulatedContent # <<>>
    /\ \E k \in DOMAIN handled :
          /\ DataOf(handled[k]) = DoneMarker
          /\ handled[k].pending0 # <<>>
          /\ handled[k].pending = handled[k].pending0
    /\ \E k \in DOMAIN handled :
          /\ PayloadWithoutObject(handled[k])
          /\ DataOf(handled[k]) \notin {DoneMarker, <<>>}

\* C24: a line that does not begin with "data: " leaves the Accumulation, the pending
\* buffer and the calls as they were, as a line between events and as the unterminated
\* last line of the stream, which at the end of the stream adds nothing to the
\* Accumulation.
C24_ForeignLineIsInert ==
    /\ \A k \in DOMAIN handled :
          ~StartsWith(handled[k].line, DataPrefix) => handled[k].pending = handled[k].pending0
    /\ (pc = "done" /\ ~StartsWith(buffer, DataPrefix)) => accumulatedContent = last.acc0

-----------------------------------------------------------------------------
(* Read boundaries: one character stream reaches the loop cut into at most  *)
(* MaxCutReads reads, at any positions (api.ts:148-176)                     *)

\* two events, a line that is no data line and an unterminated event
StreamLines == ChTwoLines \o ChComment \o ChTail

\* an object cut into two events, then the sentinel
StreamPending == ChTe \o ChXt \o ChDone

CutStreams == {StreamLines, StreamPending}

\* the number of reads one stream is cut into, at most
MaxCutReads == 3

\* the read returns the first k characters of what is left of the stream
DeliverCut(stream, left, k) ==
    /\ whole' = stream
    /\ rest' = SubSeq(left, k + 1, Len(left))
    /\ TakeChunk(SubSeq(left, 1, k))

\* the positions the next read may end at: the last read ends the stream
CutsOf(left) == IF Len(reads) + 1 >= MaxCutReads THEN {Len(left)} ELSE 1..Len(left)

CutRead ==
    /\ pc = "reading"
    /\ ~aborted
    /\ \/ /\ whole = <<>>
          /\ \E stream \in CutStreams : \E k \in CutsOf(stream) : DeliverCut(stream, stream, k)
       \/ /\ rest # <<>>
          /\ \E k \in CutsOf(rest) : DeliverCut(whole, rest, k)

\* the read reports the end of the stream once the stream has been delivered
CutDone ==
    /\ whole # <<>>
    /\ rest = <<>>
    /\ ReadDone

NextCut ==
    \/ CheckSignal
    \/ CutRead
    \/ ProcessLine
    \/ CutDone

SpecCut == Init /\ [][NextCut]_vars

\* the complete lines of a stream
CompleteLines(s) == SubSeq(SplitLines(s), 1, Len(SplitLines(s)) - 1)

\* the for loop (api.ts:178-316) over the lines ls from line k on; r is [st, pending]
RECURSIVE LoopFrom(_, _, _)
LoopFrom(ls, k, r) ==
    IF k > Len(ls) THEN r
    ELSE LoopFrom(ls, k + 1, HandleLine(ls[k], r.st, r.pending))

\* the calls of the session in which one read returns the whole stream
CallsOfOneRead(s) ==
    LET r == LoopFrom(CompleteLines(s), 1,
                      Outcome([acc |-> <<>>, calls |-> <<>>, frags |-> <<>>], <<>>, "start"))
    IN  Finish(SplitLines(s)[Len(SplitLines(s))], r.st.acc, r.st.calls).calls

\* the lines handled so far
HandledLines == [k \in DOMAIN handled |-> handled[k].line]

\* C23: however the stream is cut into reads, the loop handles the complete lines of the
\* stream, in order, and the calls are those of the session in which one read returns
\* the whole stream: a prefix of them while the stream is being read, all of them at its
\* end.
C23_CutIndependent ==
    whole # <<>> =>
        \A ls \in {CompleteLines(whole)} : \A ref \in {CallsOfOneRead(whole)} :
            /\ Len(handled) <= Len(ls)
            /\ HandledLines = SubSeq(ls, 1, Len(handled))
            /\ Len(calls) <= Len(ref)
            /\ calls = SubSeq(ref, 1, Len(calls))
            /\ pc = "done" => HandledLines = ls /\ calls = ref

\* C23's case: a stream was read to its end in three reads, the first two of which end
\* inside a line, and views were emitted
C23_Witness ==
    /\ pc = "done"
    /\ Len(reads) = 3
    /\ reads[1][Len(reads[1])] # "\n"
    /\ reads[2][Len(reads[2])] # "\n"
    /\ Cardinality(DataCalls(FALSE)) >= 2

-----------------------------------------------------------------------------
(* convertToStructuredHtml (api.ts:684)                                    *)

\* <name> and </name>
TagOpen(name) == <<"<">> \o name \o <<">">>
TagClose(name) == <<"<", "/">> \o name \o <<">">>

\* `<name>${body}</name>`
Element(name, body) == TagOpen(name) \o body \o TagClose(name)

NameH1 == <<"h","1">>
NameH2 == <<"h","2">>
NameH3 == <<"h","3">>
NameLi == <<"l","i">>
NameUl == <<"u","l">>
NameP == <<"p">>
NameStrong == <<"s","t","r","o","n","g">>

\* api.ts:699, 742
DivOpen == <<"<","d","i","v"," ","c","l","a","s","s","=","\"","c","o","n","t","r","a","c","t","-","c","o","n","t","e","n","t","\"",">">>
DivClose == <<"<","/","d","i","v",">">>

\* api.ts:691-695: the cleanup before the split
CleanedText(rawText) ==
    Trim(StripTrailingHtml(ReplaceHtmlDup(ReplaceHtmlDup(decodeHtmlEntities(rawText), 0), 1)))

\* api.ts:698: .split('\n').filter(line => line.trim())
StructuredLines(cleaned) == SelectSeq(SplitLines(cleaned), LAMBDA l : Trim(l) # <<>>)

\* .replace(/\*\*(.*?)\*\*/g, '<strong>$1</strong>')
StrongText(s) ==
    ReplaceAll(LAMBDA i : IF MatchAt(s, i, <<"*", "*">>) /\ FindClose(s, i + 2, <<"*", "*">>) > 0
                          THEN FindClose(s, i + 2, <<"*", "*">>) + 2 - i ELSE 0,
               LAMBDA i : Element(NameStrong, SubSeq(s, i + 2, FindClose(s, i + 2, <<"*", "*">>) - 1)),
               s)

\* api.ts:707-738: the kind of a trimmed line
LineKind(line) ==
    IF StartsWith(line, <<"#", " ">>) THEN "h1"
    ELSE IF StartsWith(line, <<"#", "#", " ">>) THEN "h2"
    ELSE IF StartsWith(line, <<"#", "#", "#", " ">>) THEN "h3"
    ELSE IF StartsWith(line, <<"*", " ">>) THEN "bullet"
    ELSE IF DigitRun(line, 1) > 0 /\ MatchAt(line, DigitRun(line, 1) + 1, <<".">>) THEN "numbered"
    ELSE IF Includes(line, <<"*", "*">>) THEN "bold"
    ELSE "paragraph"

\* api.ts:707-738: the element of a trimmed line
LineElement(line) ==
    CASE LineKind(line) = "h1" -> Element(NameH1, Trim(SliceFrom(line, 2)))
      [] LineKind(line) = "h2" -> Element(NameH2, Trim(SliceFrom(line, 3)))
      [] LineKind(line) = "h3" -> Element(NameH3, Trim(SliceFrom(line, 4)))
      [] LineKind(line) = "bullet" -> Element(NameLi, Trim(SliceFrom(line, 2)))
      [] LineKind(line) = "numbered" -> Element(NameLi, Trim(line))
      [] LineKind(line) = "bold" -> Element(NameP, StrongText(line))
      [] OTHER -> Element(NameP, line)

\* api.ts:701-740: the elements of the lines from line k on
RECURSIVE ElementsFrom(_, _)
ElementsFrom(ls, k) ==
    IF k > Len(ls) THEN <<>> ELSE LineElement(Trim(ls[k])) \o ElementsFrom(ls, k + 1)

\* .replace(/(<li>.*?<\/li>)/g, '<ul>$1</ul>')
WrapItems(s) ==
    ReplaceAll(LAMBDA i : IF MatchAt(s, i, TagOpen(NameLi))
                             /\ FindClose(s, i + 4, TagClose(NameLi)) > 0
                          THEN FindClose(s, i + 4, TagClose(NameLi)) + 5 - i ELSE 0,
               LAMBDA i : Element(NameUl, SubSeq(s, i, FindClose(s, i + 4, TagClose(NameLi)) + 4)),
               s)

\* MergeLists with a fault: the lists are left as they are
MergeListsNot(s) == s

\* .replace(/<\/ul>\s*<ul>/g, '')
MergeLists(s) ==
    ReplaceAll(LAMBDA i : IF MatchAt(s, i, TagClose(NameUl))
                             /\ MatchAt(s, i + 5 + SpaceRun(s, i + 5), TagOpen(NameUl))
                          THEN 9 + SpaceRun(s, i + 5) ELSE 0,
               LAMBDA i : <<>>,
               s)

\* what stands for the outcome of a transform that threw: no character of any text
Thrown == "THROWN"

\* convertToStructuredHtml with a fault: the transform throws where no line is left
convertToStructuredHtmlThrows(rawText) ==
    IF StructuredLines(CleanedText(rawText)) = <<>> THEN <<Thrown>>
    ELSE MergeLists(WrapItems(
             DivOpen \o ElementsFrom(StructuredLines(CleanedText(rawText)), 1) \o DivClose))

convertToStructuredHtml(rawText) ==
    MergeLists(WrapItems(
        DivOpen \o ElementsFrom(StructuredLines(CleanedText(rawText)), 1) \o DivClose))

-----------------------------------------------------------------------------
(* The formatters as functions: one text is drawn and the formatters are   *)
(* applied to it.  `whole` holds the text, `rest` what a formatter made of  *)
(* it and `buffer` what a second formatter made of `rest`.                  *)

\* the characters of the texts drawn character by character
InputAlphabet == {"#", "*", " ", "\n", "a", "1", ".", "-"}

\* the length of those texts, at most
MaxInputLen == 4

InputTexts == UNION {[1..n -> InputAlphabet] : n \in 0..MaxInputLen}

\* the lines of the texts drawn line by line
InputLines ==
    {<<"#"," ","T">>,
     <<"#","#"," ","S">>,
     <<"#","#","#"," ","U">>,
     <<"*"," ","a">>,
     <<"*"," ","b">>,
     <<"1","."," ","c">>,
     <<"d">>,
     <<"*","*","e","*","*"," ","f">>,
     <<>>,
     <<" ">>}

\* the number of lines of those texts, at most
MaxInputLines == 3

\* ls.join('\n')
RECURSIVE JoinLines(_, _)
JoinLines(ls, k) ==
    IF k > Len(ls) THEN <<>>
    ELSE (IF k > 1 THEN <<"\n">> ELSE <<>>) \o ls[k] \o JoinLines(ls, k + 1)

InputDocuments ==
    {JoinLines(ls, 1) : ls \in UNION {[1..n -> InputLines] : n \in 1..MaxInputLines}}

InitFormat ==
    /\ pc = "input"
    /\ whole \in InputTexts \cup InputDocuments
    /\ rest = <<>>
    /\ buffer = <<>>
    /\ aborted = FALSE
    /\ accumulatedContent = <<>>
    /\ incompleteJsonBuffer = <<>>
    /\ lines = <<>>
    /\ calls = <<>>
    /\ frags = <<>>
    /\ handled = <<>>
    /\ last = Step("start", <<>>, 0, <<>>)
    /\ reads = <<>>

\* api.ts:340: formatTextContent(text)
FormatText ==
    /\ pc = "input"
    /\ pc' = "formatted"
    /\ rest' = formatTextContent(whole)
    /\ UNCHANGED <<aborted, buffer, accumulatedContent, incompleteJsonBuffer, lines, calls,
                   frags, handled, last, reads, whole>>

\* api.ts:252, 757: the view of a formatted text
ViewOfFormatted ==
    /\ pc = "formatted"
    /\ pc' = "view"
    /\ buffer' = convertToPlainText(rest)
    /\ UNCHANGED <<aborted, rest, accumulatedContent, incompleteJsonBuffer, lines, calls,
                   frags, handled, last, reads, whole>>

\* api.ts:785: getPlainTextContent(content)
PlainText ==
    /\ pc = "input"
    /\ pc' = "plain"
    /\ rest' = convertToPlainText(whole)
    /\ UNCHANGED <<aborted, buffer, accumulatedContent, incompleteJsonBuffer, lines, calls,
                   frags, handled, last, reads, whole>>

\* ContractDisplay.tsx:36: getPlainTextContent applied to a view that was delivered
PlainAgain ==
    /\ pc = "plain"
    /\ pc' = "plain2"
    /\ buffer' = convertToPlainText(rest)
    /\ UNCHANGED <<aborted, rest, accumulatedContent, incompleteJsonBuffer, lines, calls,
                   frags, handled, last, reads, whole>>

\* api.ts:780: getHtmlContent(content)
StructuredHtml ==
    /\ pc = "input"
    /\ pc' = "structured"
    /\ rest' = convertToStructuredHtml(whole)
    /\ UNCHANGED <<aborted, buffer, accumulatedContent, incompleteJsonBuffer, lines, calls,
                   frags, handled, last, reads, whole>>

NextFormat ==
    \/ FormatText
    \/ ViewOfFormatted
    \/ PlainText
    \/ PlainAgain
    \/ StructuredHtml

SpecFormat == InitFormat /\ [][NextFormat]_vars

-----------------------------------------------------------------------------
(* Properties of the formatters                                            *)

\* a JavaScript string: a finite sequence of characters, and not the outcome of a throw
IsText(s) ==
    /\ DOMAIN s = 1..Len(s)
    /\ \A k \in 1..Len(s) : s[k] \in STRING /\ s[k] # Thrown

ParagraphBreakAt(s, i) ==
    /\ i + 3 <= Len(s)
    /\ ~IsSpace(s[i])
    /\ s[i + 1] = "\n"
    /\ s[i + 2] = "\n"
    /\ ~IsSpace(s[i + 3])

\* C26: in what formatTextContent returns there is no run of three or more newlines and
\* no run of two or more spaces, and a text with a paragraph break (two newlines) still
\* has two consecutive newlines.
C26_ParagraphBreakKept ==
    pc = "formatted" =>
        /\ ~Includes(rest, <<"\n", "\n", "\n">>)
        /\ ~Includes(rest, <<" ", " ">>)
        /\ (\E i \in 1..Len(whole) : ParagraphBreakAt(whole, i)) =>
               Includes(rest, <<"\n", "\n">>)

\* C27: convertToPlainText applied to what convertToPlainText returned returns the same
\* text.
C27_PlainTextIdempotent ==
    pc = "plain2" => buffer = rest

\* the lines of a text that are not blank, trimmed
NonBlankLines(text) ==
    [k \in DOMAIN SelectSeq(SplitLines(text), LAMBDA l : Trim(l) # <<>>) |->
        Trim(SelectSeq(SplitLines(text), LAMBDA l : Trim(l) # <<>>)[k])]

\* the line is a bullet item or a numbered item
IsItem(line) == LineKind(line) \in {"bullet", "numbered"}

\* one element for each line from line k on, every run of items inside one list element
RECURSIVE OneElementPerLine(_, _, _)
OneElementPerLine(ls, k, inList) ==
    IF k > Len(ls) THEN (IF inList THEN TagClose(NameUl) ELSE <<>>)
    ELSE (IF IsItem(ls[k]) /\ ~inList THEN TagOpen(NameUl)
          ELSE IF ~IsItem(ls[k]) /\ inList THEN TagClose(NameUl)
          ELSE <<>>)
         \o LineElement(ls[k])
         \o OneElementPerLine(ls, k + 1, IsItem(ls[k]))

\* the positions of the occurrences of p in s
Occurrences(s, p) == {i \in 1..Len(s) : MatchAt(s, i, p)}

-----------------------------------------------------------------------------
(* streamCharacters (api.ts:435): the typing layer over streamContract.    *)
(* Its callbacks are the calls of `calls`; `whole` holds its state:         *)
(* currentContent, the calls it has made to its caller's callbacks, and the *)
(* number of calls of `calls` it has received.  `rest` holds the            *)
(* processChunk invocations that wait on their timer, in the order in which *)
(* the timers fire: every timer has the same delay (api.ts:472), so a timer *)
(* set later fires later.                                                   *)

\* a fragment that holds markup tags
ChItalic ==
    <<"d","a","t","a",":"," ","{","\"","t","e","x","t","\"",":","\"","<","i",">","a","<","/","i",">","\"","}","\n">>

TypingChunks == {ChTwoLines, ChItalic, ChDone}

\* the number of reads that return a chunk in one session of SpecTyping
MaxTypingReads == 2

\* api.ts:98: /<[^>]*>/.test(text)
isHtmlContent(text) ==
    \E i \in 1..Len(text) : \E j \in (i + 1)..Len(text) : text[i] = "<" /\ text[j] = ">"

\* the state of streamCharacters
Typing(content, out, taken) == [content |-> content, out |-> out, taken |-> taken]

\* a processChunk invocation that waits on its timer before it types chunk[i]
Task(chunk, i, isFinal) == [chunk |-> chunk, i |-> i, final |-> isFinal]

\* api.ts:476-479: the end of processChunk
ChunkEnd(out, content, isFinal) ==
    IF isFinal THEN out \o <<OnData(content, TRUE), OnComplete>> ELSE out

InitTyping ==
    /\ pc = "top"
    /\ aborted = FALSE
    /\ buffer = <<>>
    /\ accumulatedContent = <<>>
    /\ incompleteJsonBuffer = <<>>
    /\ lines = <<>>
    /\ calls = <<>>
    /\ frags = <<>>
    /\ handled = <<>>
    /\ last = Step("start", <<>>, 0, <<>>)
    /\ reads = <<>>
    /\ whole = Typing(<<>>, <<>>, 0)
    /\ rest = <<>>

ReadTypingChunk ==
    /\ pc = "reading"
    /\ ~aborted
    /\ Len(reads) < MaxTypingReads
    /\ \E chunk \in TypingChunks : TakeChunk(chunk)
    /\ UNCHANGED <<whole, rest>>

\* ChunkReceived with a fault: a chunk that holds tags replaces currentContent
ChunkReceivedReplaces(c) ==
    IF isHtmlContent(c.text)
    THEN /\ whole' = Typing(c.text, Append(whole.out, OnData(c.text, FALSE)), whole.taken + 1)
         /\ rest' = rest
    ELSE IF c.text = <<>>
    THEN /\ whole' = Typing(whole.content, ChunkEnd(whole.out, whole.content, c.final),
                            whole.taken + 1)
         /\ rest' = rest
    ELSE /\ whole' = [whole EXCEPT !.taken = whole.taken + 1]
         /\ rest' = Append(rest, Task(c.text, 1, c.final))

\* api.ts:458-467, 476-479: processChunk up to its first timer, for the onData call c
ChunkReceived(c) ==
    IF isHtmlContent(c.text)
    THEN /\ whole' = Typing(whole.content \o c.text,
                            Append(whole.out, OnData(whole.content \o c.text, FALSE)),
                            whole.taken + 1)
         /\ rest' = rest
    ELSE IF c.text = <<>>
    THEN /\ whole' = Typing(whole.content, ChunkEnd(whole.out, whole.content, c.final),
                            whole.taken + 1)
         /\ rest' = rest
    ELSE /\ whole' = [whole EXCEPT !.taken = whole.taken + 1]
         /\ rest' = Append(rest, Task(c.text, 1, c.final))

\* api.ts:483-493: streamContract calls one of the callbacks streamCharacters gave it
CallReceived ==
    /\ whole.taken < Len(calls)
    /\ \E c \in {calls[whole.taken + 1]} :
          IF c.cb = "onData" THEN ChunkReceived(c)
          ELSE /\ whole' = Typing(whole.content,
                                  Append(whole.out, IF c.cb = "onError" THEN OnError ELSE OnComplete),
                                  whole.taken + 1)
               /\ rest' = rest
    /\ UNCHANGED <<pc, aborted, buffer, accumulatedContent, incompleteJsonBuffer, lines,
                   calls, frags, handled, last, reads>>

\* api.ts:469-479: the timer of the first waiting processChunk fires while streamContract
\* waits for a read or has returned; the character is typed, and processChunk sets its
\* next timer or ends
TimerFires ==
    /\ pc \in {"reading", "done", "failed"}
    /\ whole.taken = Len(calls)
    /\ rest # <<>>
    /\ \E t \in {Head(rest)} : \E typed \in {Append(whole.content, Head(rest).chunk[Head(rest).i])} :
          /\ whole' = Typing(typed,
                             IF t.i = Len(t.chunk)
                             THEN ChunkEnd(Append(whole.out, OnData(typed, FALSE)), typed, t.final)
                             ELSE Append(whole.out, OnData(typed, FALSE)),
                             whole.taken)
          /\ rest' = IF t.i = Len(t.chunk) THEN Tail(rest)
                     ELSE Append(Tail(rest), Task(t.chunk, t.i + 1, t.final))
    /\ UNCHANGED <<pc, aborted, buffer, accumulatedContent, incompleteJsonBuffer, lines,
                   calls, frags, handled, last, reads>>

NextTyping ==
    \/ CheckSignal
    \/ ReadTypingChunk
    \/ ProcessLine
    \/ ReadDone
    \/ ReadFail
    \/ CallReceived
    \/ TimerFires

SpecTyping == InitTyping /\ [][NextTyping]_vars

-----------------------------------------------------------------------------
(* Properties of the typing layer                                          *)

\* the positions in the calls of streamCharacters of its caller's onComplete
TypedCompletes == {k \in DOMAIN whole.out : whole.out[k].cb = "onComplete"}

\* the positions of its calls of its caller's onData with the given isFinal
TypedData(isFinal) ==
    {k \in DOMAIN whole.out : whole.out[k].cb = "onData" /\ whole.out[k].final = isFinal}

\* the stream has ended, streamCharacters has received every call and no timer is set
TypingAtRest ==
    /\ pc = "done"
    /\ whole.taken = Len(calls)
    /\ rest = <<>>

\* C29: streamCharacters calls its caller's onComplete at most once.
C29_TypedCompleteAtMostOnce ==
    Cardinality(TypedCompletes) <= 1

\* C30: when a session with a document that is not empty has ended and every chunk has
\* been typed, the caller's onData was called with isFinal true exactly once, and no
\* call with isFinal false came after it.
C30_TypedFinalOnceAndLast ==
    (TypingAtRest /\ accumulatedContent # <<>>) =>
        /\ Cardinality(TypedData(TRUE)) = 1
        /\ \A k \in TypedData(FALSE) : \A j \in TypedData(TRUE) : k < j

\* the positions of the calls of the caller's onData, final or not
TypedAll == TypedData(TRUE) \cup TypedData(FALSE)

\* C31: every text streamCharacters passes to its caller's onData is a prefix of a view
\* that streamContract has delivered.
C31_TypedIsPrefixOfView ==
    \A k \in TypedAll :
        \E j \in DataCalls(TRUE) \cup DataCalls(FALSE) : IsPrefix(whole.out[k].text, calls[j].text)

\* C39: the texts streamCharacters passes to its caller's onData only grow: each has every
\* text passed before it as a prefix; and the text passed with isFinal true is the text of
\* the call before it, where there is one.
C39_TypedContentGrows ==
    /\ \A k \in TypedAll : \A j \in TypedAll :
          k < j => IsPrefix(whole.out[k].text, whole.out[j].text)
    /\ \A j \in TypedData(TRUE) :
          (\E k \in TypedAll : k < j) =>
              /\ j - 1 \in TypedData(FALSE)
              /\ whole.out[j - 1].text = whole.out[j].text

\* C39's case: a final text was passed after the chunks of two views were typed
C39_Witness ==
    /\ TypingAtRest
    /\ TypedData(TRUE) # {}
    /\ Cardinality(TypedData(FALSE)) >= 4
    /\ Cardinality(DataCalls(FALSE)) >= 2

-----------------------------------------------------------------------------
(* The page (page.tsx:10-71) over one streamCharacters session.  handleStream *)
(* calls streamCharacters without a signal (page.tsx:29-44), so abortSignal   *)
(* is the signal of streamCharacters' own controller (api.ts:445-446) and     *)
(* the stop function (api.ts:499-502) sets isStreaming false and aborts that  *)
(* signal in one step: `aborted` holds both.  `whole` holds the state of      *)
(* streamCharacters and of the page; `rest` holds the waiting processChunk    *)
(* invocations as in SpecTyping.                                              *)

\* the number of times handleStream runs past its check of the prompt
MaxSessions == 2

\* whole in SpecPage.  ref: the session whose stop function stopStreamRef holds, 0 for
\* null; busy: the page's isStreaming; prompt: the prompt is not blank; returned: the
\* first session's streamCharacters has returned; stoppedAt: the number of calls the
\* first session had made to the page's callbacks when its stop function was invoked;
\* pressedAt: that number when handleStop or handleClear first ran while the session
\* was reading; sessions: the runs of handleStream past its check of the prompt
PageInit ==
    [content |-> <<>>, out |-> <<>>, taken |-> 0, ref |-> 0, busy |-> TRUE, prompt |-> TRUE,
     returned |-> FALSE, stoppedAt |-> -1, pressedAt |-> -1, sessions |-> 1]

\* page.tsx:30-43: the page's callbacks: a final onData, onError and onComplete each call
\* setIsStreaming(false)
BusyAfter(busy, out0, out1) ==
    IF \E k \in (Len(out0) + 1)..Len(out1) : out1[k].cb \in {"onError", "onComplete"} \/ out1[k].final
    THEN FALSE
    ELSE busy

\* the state after handleStream (page.tsx:17-29) called streamCharacters, fetch resolved
\* and the reader was taken
InitPage ==
    /\ pc = "top"
    /\ aborted = FALSE
    /\ buffer = <<>>
    /\ accumulatedContent = <<>>
    /\ incompleteJsonBuffer = <<>>
    /\ lines = <<>>
    /\ calls = <<>>
    /\ frags = <<>>
    /\ handled = <<>>
    /\ last = Step("start", <<>>, 0, <<>>)
    /\ reads = <<>>
    /\ whole = PageInit
    /\ rest = <<>>

\* the first session's read loop has not ended
LoopRuns == pc \in {"top", "reading", "lines"}

\* no code of the page runs: streamContract waits for a read, or streamCharacters has
\* returned; event handlers and timers run only then
PageIdle ==
    /\ whole.taken = Len(calls)
    /\ pc = "reading" \/ whole.returned

\* api.ts:458-467, 476-479, page.tsx:30-35: processChunk up to its first timer
PageChunkReceived(c) ==
    IF aborted
    THEN /\ whole' = [whole EXCEPT !.taken = whole.taken + 1]
         /\ rest' = rest
    ELSE IF isHtmlContent(c.text)
    THEN /\ whole' = [whole EXCEPT !.content = whole.content \o c.text,
                                   !.out = Append(whole.out, OnData(whole.content \o c.text, FALSE)),
                                   !.taken = whole.taken + 1]
         /\ rest' = rest
    ELSE IF c.text = <<>>
    THEN /\ whole' = [whole EXCEPT !.out = ChunkEnd(whole.out, whole.content, c.final),
                                   !.busy = BusyAfter(whole.busy, whole.out,
                                                      ChunkEnd(whole.out, whole.content, c.final)),
                                   !.taken = whole.taken + 1]
         /\ rest' = rest
    ELSE /\ whole' = [whole EXCEPT !.taken = whole.taken + 1]
         /\ rest' = Append(rest, Task(c.text, 1, c.final))

\* api.ts:483-491, page.tsx:36-42: streamContract calls one of the callbacks
\* streamCharacters gave it
PageCallReceived ==
    /\ whole.taken < Len(calls)
    /\ \E c \in {calls[whole.taken + 1]} :
          IF c.cb = "onData" THEN PageChunkReceived(c)
          ELSE /\ whole' = [whole EXCEPT
                               !.out = Append(whole.out, IF c.cb = "onError" THEN OnError ELSE OnComplete),
                               !.busy = FALSE,
                               !.taken = whole.taken + 1]
               /\ rest' = rest
    /\ UNCHANGED <<pc, aborted, buffer, accumulatedContent, incompleteJsonBuffer, lines,
                   calls, frags, handled, last, reads>>

\* api.ts:482-502, page.tsx:29, 46: streamContract has returned, so the await in
\* streamCharacters ends, streamCharacters returns its stop function and handleStream
\* stores it in stopStreamRef
StreamCharactersReturns ==
    /\ pc \in {"done", "failed"}
    /\ whole.taken = Len(calls)
    /\ ~whole.returned
    /\ whole' = [whole EXCEPT !.returned = TRUE, !.ref = 1]
    /\ UNCHANGED <<pc, aborted, buffer, accumulatedContent, incompleteJsonBuffer, lines,
                   calls, frags, handled, last, reads, rest>>

\* api.ts:451-456, 469-479: the timer of the first waiting processChunk fires.  While
\* isStreaming holds the character is typed and processChunk sets its next timer or
\* ends; after the stop function ran processCharacter returns at once (452), the loop
\* breaks (470) and the end of processChunk (476-479) still runs
PageTimerFires ==
    /\ PageIdle
    /\ rest # <<>>
    /\ \E t \in {Head(rest)} : \E typed \in {Append(whole.content, Head(rest).chunk[Head(rest).i])} :
          \E out1 \in {IF aborted THEN ChunkEnd(whole.out, whole.content, t.final)
                       ELSE IF t.i = Len(t.chunk)
                       THEN ChunkEnd(Append(whole.out, OnData(typed, FALSE)), typed, t.final)
                       ELSE Append(whole.out, OnData(typed, FALSE))} :
             /\ whole' = [whole EXCEPT !.content = IF aborted THEN whole.content ELSE typed,
                                       !.out = out1,
                                       !.busy = BusyAfter(whole.busy, whole.out, out1)]
             /\ rest' = IF aborted \/ t.i = Len(t.chunk) THEN Tail(rest)
                        ELSE Append(Tail(rest), Task(t.chunk, t.i + 1, t.final))
    /\ UNCHANGED <<pc, aborted, buffer, accumulatedContent, incompleteJsonBuffer, lines,
                   calls, frags, handled, last, reads>>

\* page.tsx:55-58, 66-69 and api.ts:499-502: the stop function of the first session is
\* called if stopStreamRef holds it, and stopStreamRef is set to null
StopIfHeld(w) ==
    [w EXCEPT !.ref = 0,
              !.stoppedAt = IF w.ref = 1 /\ w.stoppedAt < 0 THEN Len(w.out) ELSE w.stoppedAt,
              !.pressedAt = IF LoopRuns /\ w.pressedAt < 0 THEN Len(w.out) ELSE w.pressedAt,
              !.busy = FALSE]

\* page.tsx:54-60, 149-150: the Stop button, enabled while the page's isStreaming holds
HandleStop ==
    /\ PageIdle
    /\ whole.busy
    /\ whole' = StopIfHeld(whole)
    /\ aborted' = (aborted \/ whole.ref = 1)
    /\ UNCHANGED <<pc, buffer, accumulatedContent, incompleteJsonBuffer, lines,
                   calls, frags, handled, last, reads, rest>>

\* page.tsx:62-71, 157: the Clear button
HandleClear ==
    /\ PageIdle
    /\ whole' = [StopIfHeld(whole) EXCEPT !.prompt = FALSE]
    /\ aborted' = (aborted \/ whole.ref = 1)
    /\ UNCHANGED <<pc, buffer, accumulatedContent, incompleteJsonBuffer, lines,
                   calls, frags, handled, last, reads, rest>>

\* page.tsx:97-101: the prompt is typed into the text area, enabled while the page's
\* isStreaming does not hold
SetPrompt ==
    /\ PageIdle
    /\ ~whole.busy
    /\ ~whole.prompt
    /\ whole' = [whole EXCEPT !.prompt = TRUE]
    /\ UNCHANGED <<pc, aborted, buffer, accumulatedContent, incompleteJsonBuffer, lines,
                   calls, frags, handled, last, reads, rest>>

\* page.tsx:17-29, 134-135: the Generate button, enabled while the page's isStreaming
\* does not hold: handleStream runs again and calls streamCharacters for a second session
HandleStream ==
    /\ PageIdle
    /\ ~whole.busy
    /\ whole.prompt
    /\ whole.sessions < MaxSessions
    /\ whole' = [whole EXCEPT !.busy = TRUE, !.sessions = whole.sessions + 1]
    /\ UNCHANGED <<pc, aborted, buffer, accumulatedContent, incompleteJsonBuffer, lines,
                   calls, frags, handled, last, reads, rest>>

\* page.tsx:36-46: a later session ends: its callbacks call setIsStreaming(false) and its
\* stop function is stored in stopStreamRef
LaterSessionEnds ==
    /\ PageIdle
    /\ whole.sessions > 1
    /\ whole.ref # 2
    /\ whole' = [whole EXCEPT !.busy = FALSE, !.ref = 2]
    /\ UNCHANGED <<pc, aborted, buffer, accumulatedContent, incompleteJsonBuffer, lines,
                   calls, frags, handled, last, reads, rest>>

NextPage ==
    \/ CheckSignal
    \/ ReadTypingChunk
    \/ ProcessLine
    \/ ReadDone
    \/ ReadFail
    \/ PageCallReceived
    \/ StreamCharactersReturns
    \/ PageTimerFires
    \/ HandleStop
    \/ HandleClear
    \/ SetPrompt
    \/ HandleStream
    \/ LaterSessionEnds

SpecPage == InitPage /\ [][NextPage]_vars

\* the positions past k of the calls of the first session to the page's callbacks
PageCallsAfter(k) == {j \in DOMAIN whole.out : j > k}

\* C32: once the stop function streamCharacters returned has been invoked, the caller's
\* onData and onComplete are not invoked again.
C32_NoCallAfterStop ==
    whole.stoppedAt >= 0 =>
        \A j \in PageCallsAfter(whole.stoppedAt) : whole.out[j].cb \notin {"onData", "onComplete"}

\* C33: the caller holds the stop function while the read loop runs: when the loop has
\* ended, by the end of the stream or by an error, the caller has obtained it before.
C33_HandleBeforeLoopEnds ==
    pc \in {"done", "failed"} => whole.returned

\* C38: after handleStop or handleClear ran while the session was reading, the session's
\* onData does not call setContract again, and handleStream does not run again while the
\* session is reading.
C38_OneSessionNoLateUpdate ==
    /\ whole.pressedAt >= 0 =>
          \A j \in PageCallsAfter(whole.pressedAt) : whole.out[j].cb # "onData"
    /\ whole.sessions > 1 => ~LoopRuns

-----------------------------------------------------------------------------
(* The reader's lock (api.ts:134, 318-320).  In SpecLock `whole` holds the   *)
(* reader: whether streamContract holds its lock, how often releaseLock was  *)
(* called, and how many reads were issued on it without the lock; `rest` is  *)
(* not used.                                                                 *)

\* the reader: locked by getReader (api.ts:134)
Reader(locked, releases, lateReads) ==
    [locked |-> locked, releases |-> releases, lateReads |-> lateReads]

\* api.ts:318-320: the finally block of the read loop
releaseLock(reader) == Reader(FALSE, reader.releases + 1, reader.lateReads)

\* api.ts:148: reader.read()
ReadIssued(reader) ==
    Reader(reader.locked, reader.releases, reader.lateReads + (IF reader.locked THEN 0 ELSE 1))

InitLock ==
    /\ pc = "top"
    /\ aborted = FALSE
    /\ buffer = <<>>
    /\ accumulatedContent = <<>>
    /\ incompleteJsonBuffer = <<>>
    /\ lines = <<>>
    /\ calls = <<>>
    /\ frags = <<>>
    /\ handled = <<>>
    /\ last = Step("start", <<>>, 0, <<>>)
    /\ reads = <<>>
    /\ whole = Reader(TRUE, 0, 0)
    /\ rest = <<>>

\* api.ts:144-148, 318-320: the signal is looked at; the loop is left and the lock
\* released, or the read is issued
LockCheckSignal ==
    /\ pc = "top"
    /\ pc' = IF aborted THEN "cancelled" ELSE "reading"
    /\ whole' = IF aborted THEN releaseLock(whole) ELSE ReadIssued(whole)
    /\ last' = Step("check", accumulatedContent, Len(calls), incompleteJsonBuffer)
    /\ UNCHANGED <<aborted, buffer, accumulatedContent, incompleteJsonBuffer, lines,
                   calls, frags, handled, reads, rest>>

\* LockReadDone with a fault: the lock is not released when a callback throws
LockReadDoneLeaks ==
    /\ pc = "reading"
    /\ ~aborted
    /\ \E fin \in {Finish(buffer, accumulatedContent, calls)} :
       \E thrower \in 0..(Len(fin.calls) - Len(calls)) :
           /\ accumulatedContent' = fin.acc
           /\ calls' = IF thrower = 0 THEN fin.calls
                       ELSE Append(SubSeq(fin.calls, 1, Len(calls) + thrower), OnError)
           /\ pc' = IF thrower = 0 THEN "done" ELSE "failed"
           /\ whole' = IF thrower = 0 THEN releaseLock(whole) ELSE whole
    /\ last' = Step("eos", accumulatedContent, Len(calls), incompleteJsonBuffer)
    /\ UNCHANGED <<aborted, buffer, incompleteJsonBuffer, lines, frags, handled, reads, rest>>

\* api.ts:150-169, 318-328: the read reported the end of the stream.  The final onData and
\* onComplete are called inside the try block: if neither throws the loop is left by
\* break; if the call numbered thrower throws, the exception leaves the loop and is
\* reported through onError.  Either way the finally block releases the lock
LockReadDone ==
    /\ pc = "reading"
    /\ ~aborted
    /\ \E fin \in {Finish(buffer, accumulatedContent, calls)} :
       \E thrower \in 0..(Len(fin.calls) - Len(calls)) :
           /\ accumulatedContent' = fin.acc
           /\ calls' = IF thrower = 0 THEN fin.calls
                       ELSE Append(SubSeq(fin.calls, 1, Len(calls) + thrower), OnError)
           /\ pc' = IF thrower = 0 THEN "done" ELSE "failed"
    /\ whole' = releaseLock(whole)
    /\ last' = Step("eos", accumulatedContent, Len(calls), incompleteJsonBuffer)
    /\ UNCHANGED <<aborted, buffer, incompleteJsonBuffer, lines, frags, handled, reads, rest>>

\* api.ts:148, 318-328: the read rejected; the finally block releases the lock, then an
\* AbortError ends the session silently and any other error is reported through onError
LockReadFail ==
    /\ pc = "reading"
    /\ pc' = IF aborted THEN "cancelled" ELSE "failed"
    /\ calls' = IF aborted THEN calls ELSE Append(calls, OnError)
    /\ whole' = releaseLock(whole)
    /\ last' = Step("reject", accumulatedContent, Len(calls), incompleteJsonBuffer)
    /\ UNCHANGED <<aborted, buffer, accumulatedContent, incompleteJsonBuffer, lines,
                   frags, handled, reads, rest>>

NextLock ==
    \/ LockCheckSignal
    \/ ReadTypingChunk
    \/ ProcessLine
    \/ LockReadDone
    \/ LockReadFail
    \/ Abort

SpecLock == InitLock /\ [][NextLock]_vars

\* the read loop has been left
LoopLeft == pc \in {"done", "cancelled", "failed"}

\* C36: when the read loop has been left, by the end of the stream, by the signal seen at
\* the top of an iteration, by a read error or by an exception a callback threw, the
\* reader's lock has been released exactly once; it is not released while the loop runs,
\* and no read is issued without the lock.
C36_LockReleasedOnce ==
    /\ LoopLeft => whole.releases = 1 /\ ~whole.locked
    /\ ~LoopLeft => whole.releases = 0 /\ whole.locked
    /\ whole.lateReads = 0

\* C36's case: the loop was left because the final onData threw after chunks were read
C36_Witness ==
    /\ pc = "failed"
    /\ last.kind = "eos"
    /\ reads # <<>>
    /\ calls[Len(calls)].cb = "onError"
    /\ Len(calls) > 1 /\ calls[Len(calls) - 1].cb = "onData" /\ calls[Len(calls) - 1].final
    /\ whole.releases = 1

-----------------------------------------------------------------------------
(* InputValidator (validation.ts, part_001:12-228).  A ValidationResult is a *)
(* record; its error is named by a short string, and NotSet stands for a     *)
(* field that is not set.                                                    *)

UpperCase == <<"A","B","C","D","E","F","G","H","I","J","K","L","M","N","O","P","Q","R","S","T","U","V","W","X","Y","Z">>

LowerCase == <<"a","b","c","d","e","f","g","h","i","j","k","l","m","n","o","p","q","r","s","t","u","v","w","x","y","z">>

\* String.prototype.toLowerCase
toLowerCase(s) ==
    [k \in 1..Len(s) |->
        IF \E n \in 1..26 : UpperCase[n] = s[k]
        THEN LowerCase[CHOOSE n \in 1..26 : UpperCase[n] = s[k]]
        ELSE s[k]]

\* part_001:14-18
businessTypes ==
  <<
     <<"c","o","m","p","a","n","y">>, <<"b","u","s","i","n","e","s","s">>,
     <<"c","o","r","p","o","r","a","t","i","o","n">>, <<"e","n","t","e","r","p","r","i","s","e">>,
     <<"s","t","a","r","t","u","p">>, <<"f","i","r","m">>, <<"o","r","g","a","n","i","z","a","t","i","o","n">>,
     <<"s","a","a","s">>, <<"s","o","f","t","w","a","r","e">>, <<"a","p","p">>, <<"p","l","a","t","f","o","r","m">>,
     <<"s","e","r","v","i","c","e">>, <<"w","e","b","s","i","t","e">>, <<"e","c","o","m","m","e","r","c","e">>,
     <<"s","t","o","r","e">>, <<"r","e","s","t","a","u","r","a","n","t">>, <<"h","o","t","e","l">>,
     <<"c","l","i","n","i","c">>, <<"a","g","e","n","c","y">>, <<"c","o","n","s","u","l","t","i","n","g">>,
     <<"f","r","e","e","l","a","n","c","e">>, <<"c","o","n","t","r","a","c","t","o","r">> >>

\* part_001:19-23
businessActivities ==
  <<
     <<"s","e","r","v","i","c","e">>, <<"s","e","r","v","i","c","e","s">>, <<"p","r","o","d","u","c","t">>,
     <<"p","r","o","d","u","c","t","s">>, <<"c","o","n","s","u","l","t","i","n","g">>,
     <<"d","e","v","e","l","o","p","m","e","n","t">>, <<"d","e","s","i","g","n">>,
     <<"m","a","r","k","e","t","i","n","g">>, <<"s","a","l","e","s">>, <<"s","u","p","p","o","r","t">>,
     <<"m","a","i","n","t","e","n","a","n","c","e">>, <<"h","o","s","t","i","n","g">>,
     <<"s","u","b","s","c","r","i","p","t","i","o","n">>, <<"m","e","m","b","e","r","s","h","i","p">>,
     <<"d","e","l","i","v","e","r","y">>, <<"s","h","i","p","p","i","n","g">>, <<"p","a","y","m","e","n","t">>,
     <<"b","i","l","l","i","n","g">>, <<"c","u","s","t","o","m","e","r">>, <<"c","l","i","e","n","t">>,
     <<"u","s","e","r">>, <<"s","u","b","s","c","r","i","b","e","r">> >>

\* part_001:24-27
legalTerms ==
  <<
     <<"t","e","r","m","s">>, <<"s","e","r","v","i","c","e">>, <<"a","g","r","e","e","m","e","n","t">>,
     <<"c","o","n","t","r","a","c","t">>, <<"p","o","l","i","c","y">>, <<"p","r","i","v","a","c","y">>,
     <<"l","i","a","b","i","l","i","t","y">>, <<"w","a","r","r","a","n","t","y">>, <<"r","e","f","u","n","d">>,
     <<"c","a","n","c","e","l","l","a","t","i","o","n">>, <<"t","e","r","m","i","n","a","t","i","o","n">>,
     <<"d","i","s","p","u","t","e">>, <<"g","o","v","e","r","n","a","n","c","e">> >>

\* part_001:116: Object.entries(BUSINESS_KEYWORDS), one category after the other
BUSINESS_KEYWORDS == businessTypes \o businessActivities \o legalTerms

\* the elements of a regular expression: \b, \s+, \w+ and a group of alternatives
WordEdge == [kind |-> "b", alts |-> <<>>]

Spaces == [kind |-> "s", alts |-> <<>>]

WordChars == [kind |-> "w", alts |-> <<>>]

Alt(words) == [kind |-> "alt", alts |-> words]

\* \w
IsWordChar(c) == c \in Letters \/ c \in Digits \/ c = "_"

\* \b before the character at position i
AtWordEdge(s, i) ==
    (i > 1 /\ IsWordChar(s[i - 1])) # (i <= Len(s) /\ IsWordChar(s[i]))

\* the positions at which a match of the element e that starts at a position of `from`
\* can end; a position is the index of the next character
StepOver(s, e, from) ==
    CASE e.kind = "b" -> {i \in from : AtWordEdge(s, i)}
      [] e.kind = "s" ->
            {j \in 2..(Len(s) + 1) : \E i \in from : i < j /\ \A k \in i..(j - 1) : IsSpace(s[k])}
      [] e.kind = "w" ->
            {j \in 2..(Len(s) + 1) : \E i \in from : i < j /\ \A k \in i..(j - 1) : IsWordChar(s[k])}
      [] OTHER ->
            {i + Len(e.alts[a]) : <<i, a>> \in
                {x \in from \X DOMAIN e.alts : MatchAt(s, x[1], e.alts[x[2]])}}

\* the positions at which a match of the elements pat that starts at a position of `from`
\* can end
RECURSIVE EndsOf(_, _, _)
EndsOf(s, pat, from) ==
    IF pat = <<>> \/ from = {} THEN from
    ELSE EndsOf(s, Tail(pat), StepOver(s, Head(pat), from))

\* RegExp.prototype.test for a pattern without anchors
Test(pat, s) == EndsOf(s, pat, 1..(Len(s) + 1)) # {}

Months ==
    Alt(<<
         <<"j","a","n","u","a","r","y">>, <<"f","e","b","r","u","a","r","y">>, <<"m","a","r","c","h">>,
         <<"a","p","r","i","l">>, <<"m","a","y">>, <<"j","u","n","e">>, <<"j","u","l","y">>,
         <<"a","u","g","u","s","t">>, <<"s","e","p","t","e","m","b","e","r">>, <<"o","c","t","o","b","e","r">>,
         <<"n","o","v","e","m","b","e","r">>, <<"d","e","c","e","m","b","e","r">> >>)

\* part_001:32-36: the patterns without anchors
PhrasePatterns ==
    << <<WordEdge, Alt(<<<<"v","o","i","c","e"," ","c","a","l","l">>, <<"p","h","o","n","e"," ","c","a","l","l">>, <<"c","a","l","l">>>>), Spaces,
         Alt(<<<<"t","o">>, <<"w","i","t","h">>>>), Spaces, WordChars>>,
       <<WordEdge, Months, Spaces, Alt(<<<<"a","n","d">>, <<"w","i","t","h">>>>), Spaces, Months>>,
       <<WordEdge, Alt(<<<<"h","e","l","l","o">>, <<"h","i">>, <<"h","e","y">>>>), Spaces, Alt(<<<<"t","h","e","r","e">>, <<"y","o","u">>>>), WordEdge>>,
       <<WordEdge,
         Alt(<<
             <<"h","o","w"," ","a","r","e"," ","y","o","u">>, <<"w","h","a","t","'","s"," ","u","p">>,
             <<"g","o","o","d"," ","m","o","r","n","i","n","g">>,
             <<"g","o","o","d"," ","a","f","t","e","r","n","o","o","n">>,
             <<"g","o","o","d"," ","e","v","e","n","i","n","g">> >>),
         WordEdge>>,
       <<WordEdge,
         Alt(<<
             <<"t","e","s","t">>, <<"t","e","s","t","i","n","g">>, <<"j","u","s","t"," ","t","e","s","t","i","n","g">>,
             <<"r","a","n","d","o","m">>, <<"n","o","n","s","e","n","s","e">>, <<"g","i","b","b","e","r","i","s","h">> >>),
         WordEdge>> >>

\* part_001:31-40, 98: some pattern of NON_BUSINESS_PATTERNS matches
NON_BUSINESS_PATTERNS(s) ==
    \/ \E n \in DOMAIN PhrasePatterns : Test(PhrasePatterns[n], s)
    \/ \A k \in 1..Len(s) : s[k] \notin Letters
    \/ Len(s) >= 1 /\ \A k \in 1..Len(s) : IsDigit(s[k])
    \/ Len(s) \in 1..3 /\ \A k \in 1..Len(s) : s[k] \in Letters

\* String.prototype.split(/\s+/)
RECURSIVE SplitWords(_)
SplitWords(s) ==
    IF \A k \in 1..Len(s) : ~IsSpace(s[k]) THEN <<s>>
    ELSE Only({<<SubSeq(s, 1, i - 1)>> \o SplitWords(SubSeq(s, i + LeadSpace(s, i), Len(s))) :
                  i \in {First(LAMBDA k : IsSpace(s[k]), 1, Len(s))}})

NotSet == <<"NOTSET">>

ValidationResult(isValid, error, sanitizedInput) ==
    [isValid |-> isValid, error |-> error, sanitizedInput |-> sanitizedInput]

Invalid(error) == ValidationResult(FALSE, error, NotSet)

\* part_001:113-123: the number of keywords of BUSINESS_KEYWORDS the prompt includes; a
\* keyword listed in two categories counts twice
businessScore(promptLower) ==
    Cardinality({n \in DOMAIN BUSINESS_KEYWORDS : Includes(promptLower, BUSINESS_KEYWORDS[n])})

\* part_001:127-129
legalTermsFound(promptLower) ==
    \E n \in DOMAIN legalTerms : Includes(promptLower, legalTerms[n])

\* part_001:141-150: the words of the prompt and its unique words, compared in lower case
WordCheck(words) ==
    IF Len(words) < 3 THEN Invalid("more detailed")
    ELSE IF 10 * Cardinality({toLowerCase(words[k]) : k \in DOMAIN words}) < 3 * Len(words)
    THEN Invalid("more varied")
    ELSE ValidationResult(TRUE, "", NotSet)

\* part_001:94-153
validateBusinessContext(prompt) ==
    IF NON_BUSINESS_PATTERNS(toLowerCase(prompt)) THEN Invalid("not business")
    ELSE IF businessScore(toLowerCase(prompt)) < 2 /\ ~legalTermsFound(toLowerCase(prompt))
    THEN Invalid("more specific")
    ELSE WordCheck(SplitWords(prompt))

\* part_001:50: the default of maxLength
DefaultMaxLength == 10000

\* part_001:69: the least length of a prompt
MinLength == 10

\* part_001:211, 218: the bounds of validateRealTime
RealTimeMaxLength == 10000

RealTimeMinLength == 3

\* validatePromptInput with a fault: the least length is checked before maxLength
validatePromptInputShortFirst(prompt, maxLength) ==
    IF Trim(prompt) = <<>> THEN Invalid("empty")
    ELSE IF Len(Trim(prompt)) < MinLength THEN Invalid("too short")
    ELSE IF Len(Trim(prompt)) > maxLength THEN Invalid("too long")
    ELSE IF ~validateBusinessContext(Trim(prompt)).isValid THEN validateBusinessContext(Trim(prompt))
    ELSE ValidationResult(TRUE, "", Trim(prompt))

\* part_001:50-86
validatePromptInput(prompt, maxLength) ==
    IF Trim(prompt) = <<>> THEN Invalid("empty")
    ELSE IF Len(Trim(prompt)) > maxLength THEN Invalid("too long")
    ELSE IF Len(Trim(prompt)) < MinLength THEN Invalid("too short")
    ELSE IF ~validateBusinessContext(Trim(prompt)).isValid THEN validateBusinessContext(Trim(prompt))
    ELSE ValidationResult(TRUE, "", Trim(prompt))

\* validateRealTime with a fault: the prompt is returned as it was given
validateRealTimeUntrimmed(prompt) ==
    IF Trim(prompt) = <<>> THEN Invalid("empty")
    ELSE IF Len(Trim(prompt)) > RealTimeMaxLength THEN Invalid("too long")
    ELSE IF Len(Trim(prompt)) < RealTimeMinLength THEN Invalid("at least 3")
    ELSE ValidationResult(TRUE, "", prompt)

\* part_001:205-227
validateRealTime(prompt) ==
    IF Trim(prompt) = <<>> THEN Invalid("empty")
    ELSE IF Len(Trim(prompt)) > RealTimeMaxLength THEN Invalid("too long")
    ELSE IF Len(Trim(prompt)) < RealTimeMinLength THEN Invalid("at least 3")
    ELSE ValidationResult(TRUE, "", Trim(prompt))

-----------------------------------------------------------------------------
(* The validators applied to a prompt.  In SpecValidate `whole` holds the   *)
(* prompt and maxLength, `rest` the result of validatePromptInput and       *)
(* `buffer` the result of validateRealTime.                                 *)

\* the words the prompts are made of
PromptWords ==
    <<<<"a","p","p">>, <<"t","e","r","m","s">>, <<"x">>, <<"t","e","s","t">>, <<"C","o","m","p","a","n","y">>, <<"1","2">>,
      <<"h","i">>, <<"y","o","u">>>>

\* the number of words of a prompt
MaxWords == 4

RECURSIVE JoinWords(_, _)
JoinWords(f, n) ==
    IF n = 0 THEN <<>>
    ELSE IF n = 1 THEN PromptWords[f[1]]
    ELSE JoinWords(f, n - 1) \o <<" ">> \o PromptWords[f[n]]

\* the prompts: up to MaxWords words with one space between them, as they are or with
\* white space before and after
Prompts ==
    UNION {{pad \o JoinWords(f, n) \o pad : f \in [1..n -> DOMAIN PromptWords], pad \in {<<>>, <<" ", "\n">>}} :
              n \in 0..MaxWords}

\* the values of maxLength
MaxLengths == {5, 12, DefaultMaxLength}

InitValidate ==
    /\ pc = "input"
    /\ aborted = FALSE
    /\ buffer = <<>>
    /\ accumulatedContent = <<>>
    /\ incompleteJsonBuffer = <<>>
    /\ lines = <<>>
    /\ calls = <<>>
    /\ frags = <<>>
    /\ handled = <<>>
    /\ last = Step("start", <<>>, 0, <<>>)
    /\ reads = <<>>
    /\ whole \in [prompt : Prompts, maxLength : MaxLengths]
    /\ rest = <<>>

\* part_002:157: the form is submitted
ValidateSubmitted ==
    /\ pc = "input"
    /\ pc' = "validated"
    /\ rest' = validatePromptInput(whole.prompt, whole.maxLength)
    /\ UNCHANGED <<aborted, buffer, accumulatedContent, incompleteJsonBuffer, lines, calls,
                   frags, handled, last, reads, whole>>

\* part_001:256: the same prompt is given to validateRealTime
ValidateRealTime ==
    /\ pc = "validated"
    /\ pc' = "both"
    /\ buffer' = validateRealTime(whole.prompt)
    /\ UNCHANGED <<aborted, accumulatedContent, incompleteJsonBuffer, lines, calls,
                   frags, handled, last, reads, whole, rest>>

NextValidate ==
    \/ ValidateSubmitted
    \/ ValidateRealTime

SpecValidate == InitValidate /\ [][NextValidate]_vars

\* the prompt is empty or holds white space only
IsBlank(s) == \A k \in 1..Len(s) : IsSpace(s[k])

\* the errors of the check of the business context
ContextErrors == {"not business", "more specific", "more detailed", "more varied"}

C35_RealTimeAcceptsAccepted ==
    (pc = "both" /\ whole.maxLength = DefaultMaxLength /\ rest.isValid) =>
        /\ buffer.isValid
        /\ buffer.sanitizedInput = rest.sanitizedInput

\* C35's case: a prompt with white space around it that validatePromptInput accepts
C35_Witness ==
    /\ pc = "both"
    /\ whole.maxLength = DefaultMaxLength
    /\ rest.isValid
    /\ Len(whole.prompt) > Len(rest.sanitizedInput)
    /\ buffer.isValid

-----------------------------------------------------------------------------
(* ValidationDebouncer (part_001:233-276).  In SpecDebounce `whole` holds    *)
(* the debouncer and its environment: timeoutId (0 for null), lastValidation *)
(* (NotSet for null), the timers that are set and have not fired, the calls  *)
(* of validateDebounced so far and the invocations of their callbacks;       *)
(* `rest` holds what getLastValidation returned last.                        *)

\* the number of calls of validateDebounced
MaxSubmissions == 3

\* the prompts given to validateDebounced
DebouncedPrompts ==
    {<<>>, <<"a","b">>, <<"a","b","c">>, <<" ","a","p","p"," ","x"," ">>}

\* part_001:234-235: a new ValidationDebouncer
InitDebounce ==
    /\ pc = "idle"
    /\ aborted = FALSE
    /\ buffer = <<>>
    /\ accumulatedContent = <<>>
    /\ incompleteJsonBuffer = <<>>
    /\ lines = <<>>
    /\ calls = <<>>
    /\ frags = <<>>
    /\ handled = <<>>
    /\ last = Step("start", <<>>, 0, <<>>)
    /\ reads = <<>>
    /\ whole = [timeoutId |-> 0, lastValidation |-> NotSet, timers |-> {},
                submitted |-> <<>>, fired |-> <<>>]
    /\ rest = <<>>

\* clearTimeout(id): the timer with this id is not set any more; nothing happens when
\* it has fired or was cleared before
clearTimeout(timers, id) == {t \in timers : t.id # id}

\* a call of validateDebounced: its prompt, whether another call of validateDebounced or
\* of clear followed it before its timer fired, and whether its callback was invoked
Submission(prompt) == [prompt |-> prompt, followed |-> FALSE, invoked |-> FALSE]

\* the calls so far, those whose callback was not invoked marked as followed by another
Followed(submitted) ==
    [n \in DOMAIN submitted |->
        [submitted[n] EXCEPT !.followed = submitted[n].followed \/ ~submitted[n].invoked]]

\* validateDebounced with a fault: the timer set before is not cleared
ValidateDebouncedKeepsTimer(prompt) ==
    /\ Len(whole.submitted) < MaxSubmissions
    /\ whole' = [whole EXCEPT
                    !.timers = whole.timers \cup {[id |-> Len(whole.submitted) + 1]},
                    !.timeoutId = Len(whole.submitted) + 1,
                    !.submitted = Append(Followed(whole.submitted), Submission(prompt))]

\* part_001:244-259: validateDebounced(prompt, callback, delay): the timer set before is
\* cleared and a new timer is set; setTimeout returns a new id, which is not 0
ValidateDebounced(prompt) ==
    /\ Len(whole.submitted) < MaxSubmissions
    /\ whole' = [whole EXCEPT
                    !.timers = (IF whole.timeoutId # 0
                                THEN clearTimeout(whole.timers, whole.timeoutId)
                                ELSE whole.timers) \cup {[id |-> Len(whole.submitted) + 1]},
                    !.timeoutId = Len(whole.submitted) + 1,
                    !.submitted = Append(Followed(whole.submitted), Submission(prompt))]

\* part_002:128-135: the prompt of the form changes
PromptChanges ==
    /\ \E prompt \in DebouncedPrompts : ValidateDebounced(prompt)
    /\ UNCHANGED <<pc, aborted, buffer, accumulatedContent, incompleteJsonBuffer, lines,
                   calls, frags, handled, last, reads, rest>>

\* part_001:254-258: the delay of a timer that is set elapses: the prompt of its call is
\* validated, the result is kept and given to the callback
TimerElapses ==
    /\ \E t \in whole.timers : \E result \in {validateRealTime(whole.submitted[t.id].prompt)} :
          whole' = [whole EXCEPT
                       !.timers = whole.timers \ {t},
                       !.lastValidation = result,
                       !.submitted[t.id].invoked = TRUE,
                       !.fired = Append(whole.fired,
                                        [of |-> t.id, result |-> result,
                                         latest |-> Len(whole.submitted)])]
    /\ UNCHANGED <<pc, aborted, buffer, accumulatedContent, incompleteJsonBuffer, lines,
                   calls, frags, handled, last, reads, rest>>

\* part_001:264-266
GetLastValidation ==
    /\ rest' = [value |-> whole.lastValidation, at |-> Len(whole.fired)]
    /\ UNCHANGED <<pc, aborted, buffer, accumulatedContent, incompleteJsonBuffer, lines,
                   calls, frags, handled, last, reads, whole>>

\* part_001:271-276: clear()
Clear ==
    /\ whole' = [whole EXCEPT
                    !.timers = IF whole.timeoutId # 0
                               THEN clearTimeout(whole.timers, whole.timeoutId)
                               ELSE whole.timers,
                    !.timeoutId = 0,
                    !.submitted = Followed(whole.submitted)]
    /\ UNCHANGED <<pc, aborted, buffer, accumulatedContent, incompleteJsonBuffer, lines,
                   calls, frags, handled, last, reads, rest>>

NextDebounce ==
    \/ PromptChanges
    \/ TimerElapses
    \/ GetLastValidation
    \/ Clear

SpecDebounce == InitDebounce /\ [][NextDebounce]_vars

\* C37: the callback of a call of validateDebounced that was followed by another call of
\* validateDebounced or of clear before its delay elapsed is not invoked; every invocation
\* of a callback carries the result for the prompt submitted last; and getLastValidation
\* returns the result of the last invocation, null before the first.
C37_Debounced ==
    /\ \A n \in DOMAIN whole.submitted :
          ~(whole.submitted[n].followed /\ whole.submitted[n].invoked)
    /\ \A k \in DOMAIN whole.fired :
          /\ whole.fired[k].of = whole.fired[k].latest
          /\ whole.fired[k].result = validateRealTime(whole.submitted[whole.fired[k].latest].prompt)
    /\ rest # <<>> =>
          rest.value = (IF rest.at = 0 THEN NotSet ELSE whole.fired[rest.at].result)

\* C37's case: a call was followed by another, two callbacks were invoked with different
\* results, and getLastValidation was called after the second
C37_Witness ==
    /\ Len(whole.submitted) = 3
    /\ whole.submitted[1].followed
    /\ Len(whole.fired) = 2
    /\ whole.fired[1].result # whole.fired[2].result
    /\ rest # <<>> /\ rest.at = 2

====
